---- MODULE Spec2Model ----
(***************************************************************************)
(* A model of clio (src/python/clio.py): the Option records, the ArgStream *)
(* cursor, and the ArgParser with its registration calls, its query and    *)
(* mutation calls and its single-pass parse loop with nested command       *)
(* parsers.                                                                *)
(*                                                                         *)
(* A Python str is a sequence of one-character strings, so that prefixes,  *)
(* splitting and numeric conversion are computed and not assumed.          *)
(* A Python value is a record [k |-> kind, v |-> payload]; a float is the  *)
(* normalised decimal <<mantissa, exponent>> of its literal.               *)
(* Objects live in two heaps: parsers (ArgParser instances) and opts       *)
(* (Option instances); a reference is an index into its heap.              *)
(***************************************************************************)
EXTENDS Integers, Sequences, FiniteSets, TLC

(***************************************************************************)
(* Bounds of the model.                                                    *)
(***************************************************************************)
\* Longest argument list enumerated exhaustively over a program's vocabulary.
MaxLen == 3

\* The integer keys the application indexes a parser with: -MaxKey..MaxKey.
MaxKey == 2

(***************************************************************************)
(* Strings.                                                                *)
(***************************************************************************)
Digits == {"0", "1", "2", "3", "4", "5", "6", "7", "8", "9"}

\* str.isdigit() on one character (ASCII alphabet).
IsDigit(c) == c \in Digits

DigitVal(c) ==
  CASE c = "0" -> 0 [] c = "1" -> 1 [] c = "2" -> 2 [] c = "3" -> 3
    [] c = "4" -> 4 [] c = "5" -> 5 [] c = "6" -> 6 [] c = "7" -> 7
    [] c = "8" -> 8 [] c = "9" -> 9

\* Characters str.split() and str.strip() treat as whitespace.
IsSpace(c) == c \in {" ", "\t", "\n"}

\* s[n:] of a Python string, n >= 0.
Drop(s, n) == IF n >= Len(s) THEN <<>> ELSE SubSeq(s, n + 1, Len(s))

\* s.startswith(p)
StartsWith(s, p) == Len(s) >= Len(p) /\ SubSeq(s, 1, Len(p)) = p

\* "c in s" for a one-character c.
Contains(s, c) == \E i \in 1..Len(s) : s[i] = c

\* Position of the first occurrence of c in s; 0 when there is none.
RECURSIVE IndexFrom(_, _, _)
IndexFrom(s, c, i) ==
  IF i > Len(s) THEN 0
  ELSE IF s[i] = c THEN i
  ELSE IndexFrom(s, c, i + 1)

IndexOf(s, c) == IndexFrom(s, c, 1)

\* s.strip()
RECURSIVE LStrip(_)
LStrip(s) == IF s # <<>> /\ IsSpace(s[1]) THEN LStrip(Tail(s)) ELSE s

RECURSIVE RStrip(_)
RStrip(s) ==
  IF s # <<>> /\ IsSpace(s[Len(s)]) THEN RStrip(SubSeq(s, 1, Len(s) - 1)) ELSE s

Strip(s) == RStrip(LStrip(s))

\* s.split(): the maximal runs of non-whitespace characters, in order.
RECURSIVE SplitFrom(_, _, _)
SplitFrom(s, i, cur) ==
  IF i > Len(s) THEN (IF cur = <<>> THEN <<>> ELSE <<cur>>)
  ELSE IF IsSpace(s[i])
       THEN (IF cur = <<>> THEN <<>> ELSE <<cur>>) \o SplitFrom(s, i + 1, <<>>)
       ELSE SplitFrom(s, i + 1, Append(cur, s[i]))

Split(s) == SplitFrom(s, 1, <<>>)

\* arg.split("=", maxsplit=1) of a string that contains "=".
SplitEquals(arg) ==
  LET i == IndexOf(arg, "=")
  IN [name |-> SubSeq(arg, 1, i - 1), value |-> Drop(arg, i)]

(***************************************************************************)
(* Python values.                                                          *)
(***************************************************************************)
None == [k |-> "none", v |-> 0]
BoolV(b) == [k |-> "bool", v |-> b]
StrV(s) == [k |-> "string", v |-> s]
IntV(n) == [k |-> "int", v |-> n]

\* The float m * 10^e, normalised: no trailing zero in m, and 0 is <<0, 0>>.
RECURSIVE NormFloat(_, _)
NormFloat(m, e) ==
  IF m = 0 THEN <<0, 0>>
  ELSE IF m % 10 = 0 THEN NormFloat(m \div 10, e + 1)
  ELSE <<m, e>>

FloatV(m, e) == [k |-> "float", v |-> NormFloat(m, e)]

\* Value of a non-empty run of decimal digits.
RECURSIVE DigitsVal(_, _)
DigitsVal(s, acc) ==
  IF s = <<>> THEN acc ELSE DigitsVal(Tail(s), 10 * acc + DigitVal(s[1]))

AllDigits(s) == \A i \in 1..Len(s) : IsDigit(s[i])

HasSign(s) == s # <<>> /\ s[1] \in {"-", "+"}

Unsigned(s) == IF HasSign(s) THEN Tail(s) ELSE s

Signed(s, n) == IF s # <<>> /\ s[1] = "-" THEN 0 - n ELSE n

\* int(arg): an optional sign and one or more digits; ok is FALSE where
\* Python raises ValueError.
ToInt(arg) ==
  LET body == Unsigned(arg)
  IN IF body # <<>> /\ AllDigits(body)
     THEN [ok |-> TRUE, val |-> IntV(Signed(arg, DigitsVal(body, 0)))]
     ELSE [ok |-> FALSE, val |-> None]

\* float(arg): sign, digits with at most one point (a digit on one side of
\* it at least), an optional exponent; or inf / infinity / nan.
ToFloat(arg) ==
  LET body  == Unsigned(arg)
      ePos  == IndexOf(body, "e")
      mant  == IF ePos = 0 THEN body ELSE SubSeq(body, 1, ePos - 1)
      expo  == IF ePos = 0 THEN <<>> ELSE Drop(body, ePos)
      dot   == IndexOf(mant, ".")
      whole == IF dot = 0 THEN mant ELSE SubSeq(mant, 1, dot - 1)
      frac  == IF dot = 0 THEN <<>> ELSE Drop(mant, dot)
      mantOk == /\ AllDigits(whole) /\ AllDigits(frac)
                /\ Len(whole) + Len(frac) > 0
      expOk == \/ ePos = 0
               \/ Unsigned(expo) # <<>> /\ AllDigits(Unsigned(expo))
      expVal == IF ePos = 0 THEN 0
                ELSE Signed(expo, DigitsVal(Unsigned(expo), 0))
  IN IF body \in {<<"i", "n", "f">>, <<"i", "n", "f", "i", "n", "i", "t", "y">>}
     THEN [ok |-> TRUE, val |-> [k |-> "float", v |-> <<Signed(arg, 1), "inf">>]]
     ELSE IF body = <<"n", "a", "n">>
     THEN [ok |-> TRUE, val |-> [k |-> "float", v |-> <<0, "nan">>]]
     ELSE IF mantOk /\ expOk
     THEN [ok |-> TRUE,
           val |-> FloatV(Signed(arg, DigitsVal(whole \o frac, 0)),
                          expVal - Len(frac))]
     ELSE [ok |-> FALSE, val |-> None]

(***************************************************************************)
(* Dictionaries: a Python dict is a function on its set of keys.           *)
(***************************************************************************)
EmptyDict == [key \in {} |-> 0]

\* d[key] = val
DictSet(d, key, val) == (key :> val) @@ d

\* key in d
HasKey(d, key) == key \in DOMAIN d

(***************************************************************************)
(* Option and ArgParser instances.                                         *)
(***************************************************************************)
\* Option(type): a fresh option record.
Option(type) ==
  [type |-> type, mono |-> FALSE, poly |-> FALSE, found |-> FALSE,
   greedy |-> FALSE, values |-> <<>>]

\* ArgParser(helptext, version): a fresh parser; helptext and version are
\* None or a string, and an empty string counts as None.
ArgParser(helptext, version) ==
  [helptext |-> IF helptext.k = "string" /\ helptext.v # <<>>
                THEN StrV(Strip(helptext.v)) ELSE None,
   version |-> IF version.k = "string" /\ version.v # <<>>
               THEN StrV(Strip(version.v)) ELSE None,
   options |-> EmptyDict,
   commands |-> EmptyDict,
   callbacks |-> EmptyDict,
   arguments |-> <<>>,
   cmd_name |-> None,
   cmd_parser |-> 0]

\* for alias in aliases: d[alias] = ref
RECURSIVE BindAll(_, _, _)
BindAll(d, aliases, ref) ==
  IF aliases = <<>> THEN d
  ELSE BindAll(DictSet(d, Head(aliases), ref), Tail(aliases), ref)

\* The two heaps after a call that changes them.
Heap(ps, os) == [parsers |-> ps, opts |-> os]

\* for alias in aliases: d[alias] = a reference of its own, from ref on.
RECURSIVE BindEach(_, _, _)
BindEach(d, aliases, ref) ==
  IF aliases = <<>> THEN d
  ELSE BindEach(DictSet(d, Head(aliases), ref), Tail(aliases), ref + 1)

\* _add_mono_opt with an Option of its own for every alias.
add_mono_opt_copies(ps, os, p, type, name, default) ==
  LET option == [Option(type) EXCEPT !.mono = TRUE, !.values = <<default>>]
      ref == Len(os) + 1
  IN Heap([ps EXCEPT ![p].options = BindEach(@, Split(name), ref)],
          os \o [j \in 1..Len(Split(name)) |-> option])

\* for alias in aliases: d[alias] = ref, unless d binds alias already.
RECURSIVE BindNew(_, _, _)
BindNew(d, aliases, ref) ==
  IF aliases = <<>> THEN d
  ELSE BindNew(IF HasKey(d, Head(aliases)) THEN d
               ELSE DictSet(d, Head(aliases), ref),
               Tail(aliases), ref)

\* _add_mono_opt that leaves an alias bound to the option it names already.
add_mono_opt_first_wins(ps, os, p, type, name, default) ==
  LET option == [Option(type) EXCEPT !.mono = TRUE, !.values = <<default>>]
      ref == Len(os) + 1
  IN Heap([ps EXCEPT ![p].options = BindNew(@, Split(name), ref)],
          Append(os, option))

\* _add_mono_opt on parser p: one new Option holding the default, bound
\* under every alias of name.
add_mono_opt(ps, os, p, type, name, default) ==
  LET option == [Option(type) EXCEPT !.mono = TRUE, !.values = <<default>>]
      ref == Len(os) + 1
  IN Heap([ps EXCEPT ![p].options = BindAll(@, Split(name), ref)],
          Append(os, option))

\* _add_poly_opt on parser p: one new Option with no value, bound under
\* every alias of name.
add_poly_opt(ps, os, p, type, name, greedy) ==
  LET option == [Option(type) EXCEPT !.poly = TRUE, !.greedy = greedy]
      ref == Len(os) + 1
  IN Heap([ps EXCEPT ![p].options = BindAll(@, Split(name), ref)],
          Append(os, option))

add_flag(ps, os, p, name) == add_mono_opt(ps, os, p, "bool", name, BoolV(FALSE))
add_str(ps, os, p, name, default) == add_mono_opt(ps, os, p, "string", name, default)
add_int(ps, os, p, name, default) == add_mono_opt(ps, os, p, "int", name, default)
add_float(ps, os, p, name, default) == add_mono_opt(ps, os, p, "float", name, default)

\* The greedy parameter of the list registrations: False when not given.
GreedyArg(given) == IF given.k = "none" THEN FALSE ELSE given.v

add_flag_list(ps, os, p, name) == add_poly_opt(ps, os, p, "bool", name, FALSE)
add_str_list(ps, os, p, name, given) ==
  add_poly_opt(ps, os, p, "string", name, GreedyArg(given))
add_int_list(ps, os, p, name, given) ==
  add_poly_opt(ps, os, p, "int", name, GreedyArg(given))
add_float_list(ps, os, p, name, given) ==
  add_poly_opt(ps, os, p, "float", name, GreedyArg(given))

\* add_cmd on parser p: one new ArgParser(helptext), bound with the callback
\* under every alias of name; the new parser is the last of the heap.
add_cmd(ps, os, p, name, callback, helptext) ==
  LET ref == Len(ps) + 1
      grown == Append(ps, ArgParser(helptext, None))
  IN Heap([grown EXCEPT ![p].commands = BindAll(@, Split(name), ref),
                        ![p].callbacks = BindAll(@, Split(name), callback)],
          os)

(***************************************************************************)
(* ArgStream: the argument list args and the cursor index (the number of   *)
(* arguments consumed so far).                                             *)
(***************************************************************************)
has_next(args, index) == index < Len(args)

\* The argument a call of next() or peek() returns; next() also makes the
\* cursor index + 1.
peek(args, index) == args[index + 1]

\* remainder() that leaves the cursor where it is.
remainder_cursor_kept(args, index) == [rest |-> Drop(args, index), index |-> index]

\* remainder(): the arguments not yet consumed (rest), and the cursor it
\* leaves: the stream is exhausted.
remainder(args, index) == [rest |-> Drop(args, index), index |-> Len(args)]

\* _is_arg that takes every argument with a leading dash for an option.
is_arg_any_dash(arg) == IF StartsWith(arg, <<"-">>) THEN FALSE ELSE TRUE

\* _is_arg(arg): arg looks like an argument rather than an option.
is_arg(arg) ==
  IF StartsWith(arg, <<"-">>)
  THEN (IF arg = <<"-">> \/ IsDigit(arg[2]) THEN TRUE ELSE FALSE)
  ELSE TRUE

(***************************************************************************)
(* Errors. err(msg) ends the process with a non-zero status; a ParserError *)
(* or another exception is raised to the caller.                           *)
(***************************************************************************)
NoErr == [kind |-> "none", msg |-> "", subject |-> <<>>]
Err(kind, msg, subject) == [kind |-> kind, msg |-> msg, subject |-> subject]

\* _try_parse_arg that takes whatever is not a literal for zero.
try_parse_arg_lenient(argtype, arg) ==
  IF argtype = "string" THEN [status |-> "ok", val |-> StrV(arg), err |-> NoErr]
  ELSE IF argtype = "int"
  THEN [status |-> "ok", val |-> IF ToInt(arg).ok THEN ToInt(arg).val ELSE IntV(0),
        err |-> NoErr]
  ELSE IF argtype = "float"
  THEN [status |-> "ok",
        val |-> IF ToFloat(arg).ok THEN ToFloat(arg).val ELSE FloatV(0, 0),
        err |-> NoErr]
  ELSE [status |-> "raised", val |-> None,
        err |-> Err("ParserError", "invalid argument type", arg)]

\* _try_parse_arg(argtype, arg)
try_parse_arg(argtype, arg) ==
  IF argtype = "string" THEN [status |-> "ok", val |-> StrV(arg), err |-> NoErr]
  ELSE IF argtype = "int"
  THEN (IF ToInt(arg).ok
        THEN [status |-> "ok", val |-> ToInt(arg).val, err |-> NoErr]
        ELSE [status |-> "error", val |-> None,
              err |-> Err("InvalidNumericLiteral", "cannot parse as an integer", arg)])
  ELSE IF argtype = "float"
  THEN (IF ToFloat(arg).ok
        THEN [status |-> "ok", val |-> ToFloat(arg).val, err |-> NoErr]
        ELSE [status |-> "error", val |-> None,
              err |-> Err("InvalidNumericLiteral", "cannot parse as a float", arg)])
  ELSE [status |-> "raised", val |-> None,
        err |-> Err("ParserError", "invalid argument type", arg)]

\* The Option that parser p binds to name (a reference), 0 when there is none:
\* self.options.get(name).
Lookup(ps, p, name) ==
  IF HasKey(ps[p].options, name) THEN ps[p].options[name] ELSE 0

\* _set_opt that appends to the values of a mono option too.
set_opt_append_always(ps, os, p, name, value) ==
  LET ref == Lookup(ps, p, name)
  IN IF ref # 0
     THEN [exc |-> "none", opts |-> [os EXCEPT ![ref].values = Append(@, value)]]
     ELSE [exc |-> "ParserError", opts |-> os]

\* _set_opt with one list of values shared by all the poly options.
set_opt_shared_list(ps, os, p, name, value) ==
  LET ref == Lookup(ps, p, name)
  IN IF ref # 0
     THEN (IF os[ref].mono
           THEN (IF os[ref].values # <<>>
                 THEN [exc |-> "none", opts |-> [os EXCEPT ![ref].values[1] = value]]
                 ELSE [exc |-> "IndexError", opts |-> os])
           ELSE [exc |-> "none",
                 opts |-> [q \in 1..Len(os) |->
                             IF os[q].poly
                             THEN [os[q] EXCEPT !.values = Append(@, value)]
                             ELSE os[q]]])
     ELSE [exc |-> "ParserError", opts |-> os]

\* _set_opt(name, value) on parser p: replaces values[0] of a mono option,
\* appends to a poly option. exc names the exception raised, "none" for none:
\* ParserError for an unregistered name, IndexError for values[0] of an
\* option whose list is empty.
set_opt(ps, os, p, name, value) ==
  LET ref == Lookup(ps, p, name)
  IN IF ref # 0
     THEN (IF os[ref].mono
           THEN (IF os[ref].values # <<>>
                 THEN [exc |-> "none", opts |-> [os EXCEPT ![ref].values[1] = value]]
                 ELSE [exc |-> "IndexError", opts |-> os])
           ELSE [exc |-> "none", opts |-> [os EXCEPT ![ref].values = Append(@, value)]])
     ELSE [exc |-> "ParserError", opts |-> os]

\* set_flag that leaves a list option with the one value true.
set_flag_replaces(ps, os, p, name) ==
  LET ref == Lookup(ps, p, name)
  IN IF ref # 0 /\ os[ref].poly
     THEN [exc |-> "none", opts |-> [os EXCEPT ![ref].values = <<BoolV(TRUE)>>]]
     ELSE set_opt(ps, os, p, name, BoolV(TRUE))

\* set_flag(name)
set_flag(ps, os, p, name) == set_opt(ps, os, p, name, BoolV(TRUE))

\* unset_flag(name): False for a mono option, the empty list for a poly one.
unset_flag(ps, os, p, name) ==
  LET ref == Lookup(ps, p, name)
  IN IF ref # 0
     THEN (IF os[ref].mono
           THEN (IF os[ref].values # <<>>
                 THEN [exc |-> "none",
                       opts |-> [os EXCEPT ![ref].values[1] = BoolV(FALSE)]]
                 ELSE [exc |-> "IndexError", opts |-> os])
           ELSE [exc |-> "none", opts |-> [os EXCEPT ![ref].values = <<>>]])
     ELSE [exc |-> "ParserError", opts |-> os]

\* clear_list that passes over a name bound to no option.
clear_list_silent(ps, os, p, name) ==
  LET ref == Lookup(ps, p, name)
  IN IF ref # 0
     THEN [exc |-> "none", opts |-> [os EXCEPT ![ref].values = <<>>]]
     ELSE [exc |-> "none", opts |-> os]

\* clear_list(name)
clear_list(ps, os, p, name) ==
  LET ref == Lookup(ps, p, name)
  IN IF ref # 0
     THEN [exc |-> "none", opts |-> [os EXCEPT ![ref].values = <<>>]]
     ELSE [exc |-> "ParserError", opts |-> os]

\* len_list(name)
len_list(ps, os, p, name) ==
  LET ref == Lookup(ps, p, name)
  IN IF ref # 0 THEN [exc |-> "none", val |-> Len(os[ref].values)]
     ELSE [exc |-> "ParserError", val |-> 0]

\* _get_poly_opt(name): the list of values.
get_poly_opt(ps, os, p, name) ==
  LET ref == Lookup(ps, p, name)
  IN IF ref # 0 THEN [exc |-> "none", val |-> os[ref].values]
     ELSE [exc |-> "ParserError", val |-> <<>>]

\* _get_mono_opt(name): values[0].
get_mono_opt(ps, os, p, name) ==
  LET ref == Lookup(ps, p, name)
  IN IF ref # 0
     THEN (IF os[ref].values # <<>>
           THEN [exc |-> "none", val |-> os[ref].values[1]]
           ELSE [exc |-> "IndexError", val |-> None])
     ELSE [exc |-> "ParserError", val |-> None]

\* Python's list[key] on a list of n elements: the 1-based position of the
\* element, 0 for an IndexError. A negative key counts from the end.
ListIndex(n, key) ==
  IF 0 <= key /\ key < n THEN key + 1
  ELSE IF key < 0 /\ 0 - key <= n THEN n + key + 1
  ELSE 0

\* parser[key]: the positional at an integer key, the value (mono) or the
\* list of values (poly) of the option at any other key.
getitem(ps, os, p, key) ==
  IF key.k = "int"
  THEN (IF key.v < Len(ps[p].arguments)
        THEN (IF ListIndex(Len(ps[p].arguments), key.v) # 0
              THEN [exc |-> "none",
                    val |-> StrV(ps[p].arguments[ListIndex(Len(ps[p].arguments),
                                                           key.v)])]
              ELSE [exc |-> "IndexError", val |-> None])
        ELSE [exc |-> "ParserError", val |-> None])
  ELSE IF Lookup(ps, p, key.v) = 0 THEN [exc |-> "ParserError", val |-> None]
  ELSE IF os[Lookup(ps, p, key.v)].mono THEN get_mono_opt(ps, os, p, key.v)
  ELSE [exc |-> "none", val |-> [k |-> "list", v |-> os[Lookup(ps, p, key.v)].values]]

(***************************************************************************)
(* Option handling. A handler returns its outcome: the Option heap and the *)
(* cursor it leaves, how it ended (ok, error: err() was called, exit: help *)
(* or version was printed, raised: an exception), the error, the text      *)
(* written to stdout, and the Option it looked up (hit, 0 for none).       *)
(***************************************************************************)
Outcome(os, index, status, e, text, hit) ==
  [opts |-> os, index |-> index, status |-> status, err |-> e,
   out |-> text, hit |-> hit]

\* The outcome of a handler that ends by storing a value with _set_opt.
Stored(res, index, ref) ==
  IF res.exc = "none"
  THEN Outcome(res.opts, index, "ok", NoErr, <<>>, ref)
  ELSE Outcome(res.opts, index, "raised", Err(res.exc, "exception", <<>>), <<>>, ref)

\* The greedy loop left out: no further argument is taken.
greedy_loop_never(ps, os, p, name, ref, args, index) ==
  Outcome(os, index, "ok", NoErr, <<>>, ref)

\* The greedy loop: while stream.has_next() and _is_arg(stream.peek()),
\* parse the next argument and store it under name.
RECURSIVE greedy_loop(_, _, _, _, _, _, _)
greedy_loop(ps, os, p, name, ref, args, index) ==
  IF has_next(args, index) /\ is_arg(peek(args, index))
  THEN LET value == try_parse_arg(os[ref].type, peek(args, index))
           res == set_opt(ps, os, p, name, value.val)
       IN IF value.status # "ok"
          THEN Outcome(os, index + 1, value.status, value.err, <<>>, ref)
          ELSE IF res.exc # "none"
          THEN Stored(res, index + 1, ref)
          ELSE greedy_loop(ps, res.opts, p, name, ref, args, index + 1)
  ELSE Outcome(os, index, "ok", NoErr, <<>>, ref)

\* parse_registered_option that never sets found.
parse_registered_option_unmarked(ps, os, p, prefix, name, ref, args, index) ==
  IF os[ref].mono /\ os[ref].found
  THEN Outcome(os, index, "error",
               Err("DuplicateOption", "can be set only once", prefix \o name),
               <<>>, ref)
  ELSE IF os[ref].type = "bool"
  THEN Stored(set_flag(ps, os, p, name), index, ref)
  ELSE IF has_next(args, index) /\ is_arg(peek(args, index))
  THEN LET value == try_parse_arg(os[ref].type, peek(args, index))
           res == set_opt(ps, os, p, name, value.val)
       IN IF value.status # "ok"
          THEN Outcome(os, index + 1, value.status, value.err, <<>>, ref)
          ELSE IF os[ref].greedy /\ res.exc = "none"
          THEN greedy_loop(ps, res.opts, p, name, ref, args, index + 1)
          ELSE Stored(res, index + 1, ref)
  ELSE Outcome(os, index, "error",
               Err("MissingArgument", "missing argument for the option",
                   prefix \o name),
               <<>>, ref)

\* parse_registered_option that reads the following argument with peek() and
\* leaves it in the stream.
parse_registered_option_peeked(ps, os, p, prefix, name, ref, args, index) ==
  IF os[ref].mono /\ os[ref].found
  THEN Outcome(os, index, "error",
               Err("DuplicateOption", "can be set only once", prefix \o name),
               <<>>, ref)
  ELSE LET marked == [os EXCEPT ![ref].found = TRUE]
       IN IF marked[ref].type = "bool"
          THEN Stored(set_flag(ps, marked, p, name), index, ref)
          ELSE IF has_next(args, index) /\ is_arg(peek(args, index))
          THEN LET value == try_parse_arg(marked[ref].type, peek(args, index))
                   res == set_opt(ps, marked, p, name, value.val)
               IN IF value.status # "ok"
                  THEN Outcome(marked, index, value.status, value.err, <<>>, ref)
                  ELSE Stored(res, index, ref)
          ELSE Outcome(marked, index, "error",
                       Err("MissingArgument", "missing argument for the option",
                           prefix \o name),
                       <<>>, ref)

\* parse_registered_option with the greedy loop for every option.
parse_registered_option_all_greedy(ps, os, p, prefix, name, ref, args, index) ==
  IF os[ref].mono /\ os[ref].found
  THEN Outcome(os, index, "error",
               Err("DuplicateOption", "can be set only once", prefix \o name),
               <<>>, ref)
  ELSE LET marked == [os EXCEPT ![ref].found = TRUE]
       IN IF marked[ref].type = "bool"
          THEN Stored(set_flag(ps, marked, p, name), index, ref)
          ELSE IF has_next(args, index) /\ is_arg(peek(args, index))
          THEN LET value == try_parse_arg(marked[ref].type, peek(args, index))
                   res == set_opt(ps, marked, p, name, value.val)
               IN IF value.status # "ok"
                  THEN Outcome(marked, index + 1, value.status, value.err,
                               <<>>, ref)
                  ELSE IF res.exc = "none"
                  THEN greedy_loop(ps, res.opts, p, name, ref, args, index + 1)
                  ELSE Stored(res, index + 1, ref)
          ELSE Outcome(marked, index, "error",
                       Err("MissingArgument", "missing argument for the option",
                           prefix \o name),
                       <<>>, ref)

\* What the long and the short form do with a registered option once it is
\* looked up: the single-occurrence check of a mono option, then found, then
\* the flag or the following argument(s). prefix is "--" or "-".
parse_registered_option(ps, os, p, prefix, name, ref, args, index) ==
  IF os[ref].mono /\ os[ref].found
  THEN Outcome(os, index, "error",
               Err("DuplicateOption", "can be set only once", prefix \o name),
               <<>>, ref)
  ELSE LET marked == [os EXCEPT ![ref].found = TRUE]
       IN IF marked[ref].type = "bool"
          THEN Stored(set_flag(ps, marked, p, name), index, ref)
          ELSE IF has_next(args, index) /\ is_arg(peek(args, index))
          THEN LET value == try_parse_arg(marked[ref].type, peek(args, index))
                   res == set_opt(ps, marked, p, name, value.val)
               IN IF value.status # "ok"
                  THEN Outcome(marked, index + 1, value.status, value.err,
                               <<>>, ref)
                  ELSE IF marked[ref].greedy /\ res.exc = "none"
                  THEN greedy_loop(ps, res.opts, p, name, ref, args, index + 1)
                  ELSE Stored(res, index + 1, ref)
          ELSE Outcome(marked, index, "error",
                       Err("MissingArgument", "missing argument for the option",
                           prefix \o name),
                       <<>>, ref)

\* _parse_name_equals_value_option without the test of an empty value.
parse_name_equals_value_option_any_value(ps, os, p, prefix, arg, index) ==
  LET name == SplitEquals(arg).name
      value == SplitEquals(arg).value
      ref == Lookup(ps, p, name)
  IN IF ref = 0
     THEN Outcome(os, index, "error",
                  Err("UnknownOption", "is not a recognised option", prefix \o name),
                  <<>>, 0)
     ELSE IF os[ref].mono /\ os[ref].found
     THEN Outcome(os, index, "error",
                  Err("DuplicateOption", "can be set only once", prefix \o name),
                  <<>>, ref)
     ELSE LET marked == [os EXCEPT ![ref].found = TRUE]
              parsed == try_parse_arg(marked[ref].type, value)
          IN IF marked[ref].type = "bool"
             THEN Outcome(marked, index, "error",
                          Err("TypeMismatch", "invalid format for boolean flag",
                              prefix \o name),
                          <<>>, ref)
             ELSE IF parsed.status # "ok"
             THEN Outcome(marked, index, parsed.status, parsed.err, <<>>, ref)
             ELSE Stored(set_opt(ps, marked, p, name, parsed.val), index, ref)

\* _parse_name_equals_value_option(prefix, arg): --name=value or -n=value.
parse_name_equals_value_option(ps, os, p, prefix, arg, index) ==
  LET name == SplitEquals(arg).name
      value == SplitEquals(arg).value
      ref == Lookup(ps, p, name)
  IN IF ref = 0
     THEN Outcome(os, index, "error",
                  Err("UnknownOption", "is not a recognised option", prefix \o name),
                  <<>>, 0)
     ELSE IF os[ref].mono /\ os[ref].found
     THEN Outcome(os, index, "error",
                  Err("DuplicateOption", "can be set only once", prefix \o name),
                  <<>>, ref)
     ELSE LET marked == [os EXCEPT ![ref].found = TRUE]
          IN IF marked[ref].type = "bool"
             THEN Outcome(marked, index, "error",
                          Err("TypeMismatch", "invalid format for boolean flag",
                              prefix \o name),
                          <<>>, ref)
             ELSE IF value = <<>>
             THEN Outcome(marked, index, "error",
                          Err("EmptyValue", "missing argument for the option",
                              prefix \o name),
                          <<>>, ref)
             ELSE LET parsed == try_parse_arg(marked[ref].type, value)
                  IN IF parsed.status # "ok"
                     THEN Outcome(marked, index, parsed.status, parsed.err, <<>>, ref)
                     ELSE Stored(set_opt(ps, marked, p, name, parsed.val), index, ref)

\* _parse_longform_option that looks for the automatic --help and --version
\* before it looks up the name.
parse_longform_option_auto_first(ps, os, p, arg, args, index) ==
  IF Contains(arg, "=")
  THEN parse_name_equals_value_option(ps, os, p, <<"-", "-">>, arg, index)
  ELSE IF arg = <<"h", "e", "l", "p">> /\ ps[p].helptext.k # "none"
  THEN Outcome(os, index, "exit", NoErr, ps[p].helptext.v \o <<"\n">>, 0)
  ELSE IF arg = <<"v", "e", "r", "s", "i", "o", "n">> /\ ps[p].version.k # "none"
  THEN Outcome(os, index, "exit", NoErr, ps[p].version.v \o <<"\n">>, 0)
  ELSE IF HasKey(ps[p].options, arg)
  THEN parse_registered_option(ps, os, p, <<"-", "-">>, arg, ps[p].options[arg],
                               args, index)
  ELSE Outcome(os, index, "error",
               Err("UnknownOption", "is not a recognised option", <<"-", "-">> \o arg),
               <<>>, 0)

\* _parse_longform_option(arg, stream): arg is the argument without its "--".
parse_longform_option(ps, os, p, arg, args, index) ==
  IF Contains(arg, "=")
  THEN parse_name_equals_value_option(ps, os, p, <<"-", "-">>, arg, index)
  ELSE IF HasKey(ps[p].options, arg)
  THEN parse_registered_option(ps, os, p, <<"-", "-">>, arg, ps[p].options[arg],
                               args, index)
  ELSE IF arg = <<"h", "e", "l", "p">> /\ ps[p].helptext.k # "none"
  THEN Outcome(os, index, "exit", NoErr, ps[p].helptext.v \o <<"\n">>, 0)
  ELSE IF arg = <<"v", "e", "r", "s", "i", "o", "n">> /\ ps[p].version.k # "none"
  THEN Outcome(os, index, "exit", NoErr, ps[p].version.v \o <<"\n">>, 0)
  ELSE Outcome(os, index, "error",
               Err("UnknownOption", "is not a recognised option", <<"-", "-">> \o arg),
               <<>>, 0)

\* parse_shortform_char that passes over a character bound to no option.
parse_shortform_char_lenient(ps, os, p, char, args, index) ==
  LET ref == Lookup(ps, p, <<char>>)
  IN IF ref = 0
     THEN Outcome(os, index, "ok", NoErr, <<>>, 0)
     ELSE parse_registered_option(ps, os, p, <<"-">>, <<char>>, ref, args, index)

\* parse_shortform_char that leaves the value it reads in the stream.
parse_shortform_char_rereads(ps, os, p, char, args, index) ==
  LET ref == Lookup(ps, p, <<char>>)
  IN IF ref = 0
     THEN Outcome(os, index, "error",
                  Err("UnknownOption", "is not a recognised option", <<"-", char>>),
                  <<>>, 0)
     ELSE parse_registered_option_peeked(ps, os, p, <<"-">>, <<char>>, ref,
                                         args, index)

\* One pass of the loop over the characters of a short-form argument in
\* _parse_shortform_option: the option of one character.
parse_shortform_char(ps, os, p, char, args, index) ==
  LET ref == Lookup(ps, p, <<char>>)
  IN IF ref = 0
     THEN Outcome(os, index, "error",
                  Err("UnknownOption", "is not a recognised option", <<"-", char>>),
                  <<>>, 0)
     ELSE parse_registered_option(ps, os, p, <<"-">>, <<char>>, ref, args, index)

(***************************************************************************)
(* The strings of the driver programs: argument tokens (T_), registration  *)
(* names with their aliases and help texts (N_).                           *)
(***************************************************************************)
T_foo == <<"f", "o", "o">>
T_bar == <<"b", "a", "r">>
T_baz == <<"b", "a", "z">>
T_a == <<"a">>
T_b == <<"b">>
T_c == <<"c">>
T_d == <<"d">>
T_x == <<"x">>
T_y == <<"y">>
T_value == <<"v", "a", "l", "u", "e">>
T_n202 == <<"2", "0", "2">>
T_n2_2 == <<"2", ".", "2">>
T_n123 == <<"1", "2", "3">>
T_n456 == <<"4", "5", "6">>
T_dd == <<"-", "-">>
T_dash == <<"-">>
T_m5 == <<"-", "5">>
T_dd_bar == <<"-", "-", "b", "a", "r">>
T_dd_baz == <<"-", "-", "b", "a", "z">>
T_help == <<"h", "e", "l", "p">>
T_cmd == <<"c", "m", "d">>
T_sub == <<"s", "u", "b">>
T_s_v == <<"-", "v">>
T_dd_5 == <<"-", "-", "5">>
T_s_bsif == <<"-", "b", "s", "i", "f">>
T_s_b == <<"-", "b">>
T_dd_bool == <<"-", "-", "b", "o", "o", "l">>
T_s_s == <<"-", "s">>
T_dd_string == <<"-", "-", "s", "t", "r", "i", "n", "g">>
T_dd_string_eq_value == <<"-", "-", "s", "t", "r", "i", "n", "g", "=", "v", "a", "l", "u", "e">>
T_s_i == <<"-", "i">>
T_dd_int == <<"-", "-", "i", "n", "t">>
T_dd_float == <<"-", "-", "f", "l", "o", "a", "t">>
T_s_f == <<"-", "f">>
T_s_s_eq_value == <<"-", "s", "=", "v", "a", "l", "u", "e">>
T_s_bb == <<"-", "b", "b">>
T_dd_tag == <<"-", "-", "t", "a", "g">>
T_s_t == <<"-", "t">>
T_dd_flag == <<"-", "-", "f", "l", "a", "g">>
T_dd_list == <<"-", "-", "l", "i", "s", "t">>
T_s_l == <<"-", "l">>
T_bool == <<"b", "o", "o", "l">>
T_string == <<"s", "t", "r", "i", "n", "g">>
T_int == <<"i", "n", "t">>
T_float == <<"f", "l", "o", "a", "t">>
T_tag == <<"t", "a", "g">>
T_flag == <<"f", "l", "a", "g">>
T_list == <<"l", "i", "s", "t">>
T_nope == <<"n", "o", "p", "e">>
T_helptext == <<"h", "e", "l", "p", "t", "e", "x", "t">>
N_5_v == <<"5", " ", "v">>
N_bool_b == <<"b", "o", "o", "l", " ", "b">>
N_bool_s == <<"b", "o", "o", "l", " ", "s">>
N_string_s == <<"s", "t", "r", "i", "n", "g", " ", "s">>
N_int_i == <<"i", "n", "t", " ", "i">>
N_float_f == <<"f", "l", "o", "a", "t", " ", "f">>
N_tag_t == <<"t", "a", "g", " ", "t">>
N_cmd_c == <<"c", "m", "d", " ", "c">>
N_list_l == <<"l", "i", "s", "t", " ", "l">>
N_sub_help == <<" ", "s", "u", "b", " ", "h", "e", "l", "p", " ">>
N_usage == <<"u", "s", "a", "g", "e">>
N_1_0 == <<"1", ".", "0">>

T_dd_tag_eq_a == <<"-", "-", "t", "a", "g", "=", "a">>
T_i == <<"i">>
T_f == <<"f">>
T_t == <<"t">>
T_5 == <<"5">>
T_s == <<"s">>
T_dd_string_eq == <<"-", "-", "s", "t", "r", "i", "n", "g", "=">>
T_dd_bool_eq_x == <<"-", "-", "b", "o", "o", "l", "=", "x">>
T_s_vx == <<"-", "v", "x">>
T_dd_help == <<"-", "-", "h", "e", "l", "p">>
T_dd_version == <<"-", "-", "v", "e", "r", "s", "i", "o", "n">>
T_version == <<"v", "e", "r", "s", "i", "o", "n">>
T_v == <<"v">>
T_l == <<"l">>
T_default == <<"d", "e", "f", "a", "u", "l", "t">>
T_n789 == <<"7", "8", "9">>

(***************************************************************************)
(* Driver programs. A program is what an application does with the         *)
(* library: it constructs the root parser, makes its registration calls in *)
(* order (on parser `on': 1 is the root, the n-th add_cmd returns parser   *)
(* n + 1), then calls parse and the query/mutation API. Its argument lists *)
(* are all the lists of at most MaxLen tokens of its vocabulary, and its   *)
(* examples.                                                               *)
(***************************************************************************)
Reg(op, on, name, arg, cb) ==
  [op |-> op, on |-> on, name |-> name, arg |-> arg, cb |-> cb]

\* No option of its own but a flag with a digit alias.
Prog_plain ==
  [helptext |-> None, version |-> None,
   regs |-> <<Reg("add_flag", 1, N_5_v, None, 0)>>,
   vocab |-> {T_foo, T_dd, T_dd_bar, T_dash, T_m5, T_s_v, T_help, T_s_vx,
              T_dd_help},
   examples |-> {<<T_foo, T_dd, T_dd_bar, T_dd_baz>>},
   api |-> 0, parses |-> 1, apiNames |-> {}, apiValues |-> <<>>]

\* One mono option of each type, each with a short alias.
Prog_multi ==
  [helptext |-> None, version |-> None,
   regs |-> <<Reg("add_flag", 1, N_bool_b, None, 0),
              Reg("add_str", 1, N_string_s, StrV(T_default), 0),
              Reg("add_int", 1, N_int_i, IntV(101), 0),
              Reg("add_float", 1, N_float_f, FloatV(11, 0 - 1), 0)>>,
   vocab |-> {T_s_bsif, T_value, T_n202, T_s_b, T_dd_bool, T_s_s,
              T_dd_string_eq_value, T_s_s_eq_value, T_s_i, T_dd, T_m5,
              T_dd_string_eq, T_dd_bool_eq_x},
   examples |-> {<<T_s_bsif, T_value, T_n202, T_n2_2>>,
                 <<T_dd_int, T_m5>>, <<T_s_s, T_dash, T_dd_int>>},
   api |-> 0, parses |-> 1, apiNames |-> {}, apiValues |-> <<>>]

\* List options: greedy ones, and ones registered without a greedy argument.
Prog_lists ==
  [helptext |-> None, version |-> None,
   regs |-> <<Reg("add_str_list", 1, N_tag_t, BoolV(TRUE), 0),
              Reg("add_str_list", 1, N_string_s, None, 0),
              Reg("add_int_list", 1, N_int_i, None, 0),
              Reg("add_flag_list", 1, N_bool_b, None, 0),
              Reg("add_float_list", 1, N_float_f, BoolV(TRUE), 0)>>,
   vocab |-> {T_dd_tag, T_s_t, T_a, T_n123, T_dd_string, T_s_s, T_dd, T_m5,
              T_dd_int, T_s_bb, T_dd_float, T_dd_tag_eq_a},
   examples |-> {<<T_dd_tag, T_a, T_b, T_c>>,
                 <<T_dd_tag, T_a, T_b, T_c, T_dd_tag, T_d>>,
                 <<T_dd_string, T_foo, T_bar, T_dd_string, T_baz>>,
                 <<T_s_s, T_foo, T_bar, T_s_s, T_baz>>,
                 <<T_dd_string, T_foo, T_bar, T_s_s, T_baz>>,
                 <<T_dd_int, T_n123, T_n456, T_dd_int, T_n789>>,
                 <<T_s_b, T_s_bb>>, <<T_dd_bool, T_s_bb>>},
   api |-> 0, parses |-> 1, apiNames |-> {}, apiValues |-> <<>>]

\* A command with a flag of its own and a command below it.
Prog_cmd ==
  [helptext |-> StrV(N_usage), version |-> StrV(N_1_0),
   regs |-> <<Reg("add_flag", 1, N_bool_b, None, 0),
              Reg("add_cmd", 1, N_cmd_c, StrV(T_helptext), 1),
              Reg("add_flag", 2, T_flag, None, 0),
              Reg("add_cmd", 2, T_sub, StrV(N_sub_help), 2)>>,
   vocab |-> {T_cmd, T_x, T_y, T_dd_flag, T_dd, T_help, T_s_b, T_sub,
              T_dd_help, T_dd_version},
   examples |-> {<<T_cmd, T_x, T_y, T_dd_flag>>,
                 <<T_s_b, T_x, T_cmd, T_sub, T_y>>},
   api |-> 0, parses |-> 1, apiNames |-> {}, apiValues |-> <<>>]

\* A flag and a list, with calls of the mutation API around the parse.
Prog_api ==
  [helptext |-> None, version |-> None,
   regs |-> <<Reg("add_flag", 1, N_bool_b, None, 0),
              Reg("add_str_list", 1, N_list_l, None, 0)>>,
   vocab |-> {T_s_b, T_dd_list, T_x},
   examples |-> {},
   api |-> 2, parses |-> 1,
   apiNames |-> {T_bool, T_b, T_list, T_nope},
   apiValues |-> <<BoolV(TRUE), StrV(T_x)>>]

\* A flag and a list, with two calls of parse on the same parser.
Prog_twice ==
  [helptext |-> None, version |-> None,
   regs |-> <<Reg("add_flag", 1, N_bool_b, None, 0),
              Reg("add_str_list", 1, N_list_l, None, 0)>>,
   vocab |-> {T_s_b, T_dd_list, T_x, T_y},
   examples |-> {},
   api |-> 0, parses |-> 2, apiNames |-> {}, apiValues |-> <<>>]

\* A list, a greedy list and a command, with arguments that are values in
\* one place and a command name or "help" in another.
Prog_values ==
  [helptext |-> None, version |-> None,
   regs |-> <<Reg("add_str_list", 1, N_list_l, None, 0),
              Reg("add_str_list", 1, N_tag_t, BoolV(TRUE), 0),
              Reg("add_cmd", 1, N_cmd_c, StrV(T_helptext), 1)>>,
   vocab |-> {T_dd_list, T_dd_tag, T_cmd, T_help, T_x},
   examples |-> {},
   api |-> 0, parses |-> 1, apiNames |-> {}, apiValues |-> <<>>]

\* A string option and then a flag registered under its short alias, with a
\* call of the mutation API.
Prog_rebind ==
  [helptext |-> None, version |-> None,
   regs |-> <<Reg("add_str", 1, N_string_s, StrV(T_default), 0),
              Reg("add_flag", 1, N_bool_s, None, 0)>>,
   vocab |-> {T_s_s, T_dd_string, T_value, T_dd_bool},
   examples |-> {},
   api |-> 1, parses |-> 1,
   apiNames |-> {T_s, T_string},
   apiValues |-> <<StrV(T_x)>>]

\* A help text, a version and a flag registered as "version".
Prog_auto ==
  [helptext |-> StrV(N_usage), version |-> StrV(N_1_0),
   regs |-> <<Reg("add_flag", 1, T_version, None, 0)>>,
   vocab |-> {T_dd_help, T_dd_version, T_dd_bar, T_x},
   examples |-> {},
   api |-> 0, parses |-> 1, apiNames |-> {}, apiValues |-> <<>>]

Programs ==
  <<Prog_plain, Prog_multi, Prog_lists, Prog_cmd, Prog_api, Prog_twice,
    Prog_values, Prog_rebind, Prog_auto>>

SeqsUpTo(S, n) == UNION {[1..k -> S] : k \in 0..n}

Inputs(prg) == SeqsUpTo(prg.vocab, MaxLen) \cup prg.examples

(***************************************************************************)
(* State.                                                                  *)
(***************************************************************************)
VARIABLES
  sc,       \* the driver program that runs (an index into Programs)
  prog,     \* its registration calls still to make
  budget,   \* its parse and API calls still to make
  parsers,  \* heap of ArgParser instances; 1 is the root
  opts,     \* heap of Option instances
  stack,    \* the active calls of parse, the innermost last
  status,   \* idle (in the application), parsing, exit_ok, exit_err, raised
  err,      \* the error that ended the process or was raised
  out,      \* the text written to stdout
  input,    \* the argument list of the last parse call of the application
  log       \* history: what was registered, classified, consumed and called

vars == <<sc, prog, budget, parsers, opts, stack, status, err, out, input, log>>

\* A history entry: what happened, on which parser, at which call depth,
\* for the i-th argument of that call's list, the string and the Option
\* (or callback, or parser) concerned. A call entry holds the length of the
\* argument list in ref; a return entry the cursor in i and the length in
\* ref; a callback entry the callback in i and the parser passed in ref; a
\* set entry the number of the value among the program's apiValues in i.
Event(ev, p, d, i, tok, ref) ==
  [ev |-> ev, p |-> p, d |-> d, i |-> i, tok |-> tok, ref |-> ref]

Init ==
  /\ sc \in 1..Len(Programs)
  /\ prog = Programs[sc].regs
  /\ budget = [api |-> Programs[sc].api, parses |-> Programs[sc].parses]
  /\ parsers = <<ArgParser(Programs[sc].helptext, Programs[sc].version)>>
  /\ opts = <<>>
  /\ stack = <<>>
  /\ status = "idle"
  /\ err = NoErr
  /\ out = <<>>
  /\ input = <<>>
  /\ log = <<>>

(***************************************************************************)
(* Registration.                                                           *)
(***************************************************************************)
\* The next registration call of the program is op.
Registering(op) == status = "idle" /\ prog # <<>> /\ Head(prog).op = op

\* The state after a registration call that left the heaps h.
Registered(ev, h, ref) ==
  /\ parsers' = h.parsers
  /\ opts' = h.opts
  /\ prog' = Tail(prog)
  /\ log' = Append(log, Event(ev, Head(prog).on, 0, 0, Head(prog).name, ref))
  /\ UNCHANGED <<sc, budget, stack, status, err, out, input>>

AddFlag ==
  /\ Registering("add_flag")
  /\ Registered("reg_opt", add_flag(parsers, opts, Head(prog).on, Head(prog).name),
                Len(opts) + 1)

AddStr ==
  /\ Registering("add_str")
  /\ Registered("reg_opt", add_str(parsers, opts, Head(prog).on, Head(prog).name,
                        Head(prog).arg), Len(opts) + 1)

AddInt ==
  /\ Registering("add_int")
  /\ Registered("reg_opt", add_int(parsers, opts, Head(prog).on, Head(prog).name,
                        Head(prog).arg), Len(opts) + 1)

AddFloat ==
  /\ Registering("add_float")
  /\ Registered("reg_opt", add_float(parsers, opts, Head(prog).on, Head(prog).name,
                          Head(prog).arg), Len(opts) + 1)

AddFlagList ==
  /\ Registering("add_flag_list")
  /\ Registered("reg_opt", add_flag_list(parsers, opts, Head(prog).on, Head(prog).name),
                Len(opts) + 1)

AddStrList ==
  /\ Registering("add_str_list")
  /\ Registered("reg_opt", add_str_list(parsers, opts, Head(prog).on, Head(prog).name,
                             Head(prog).arg), Len(opts) + 1)

AddIntList ==
  /\ Registering("add_int_list")
  /\ Registered("reg_opt", add_int_list(parsers, opts, Head(prog).on, Head(prog).name,
                             Head(prog).arg), Len(opts) + 1)

AddFloatList ==
  /\ Registering("add_float_list")
  /\ Registered("reg_opt", add_float_list(parsers, opts, Head(prog).on, Head(prog).name,
                               Head(prog).arg), Len(opts) + 1)

AddCmd ==
  /\ Registering("add_cmd")
  /\ Registered("reg_cmd", add_cmd(parsers, opts, Head(prog).on, Head(prog).name,
                        Head(prog).cb, Head(prog).arg), Len(parsers) + 1)

(***************************************************************************)
(* parse: the calls in progress. A frame is one call of parse: its parser, *)
(* its ArgStream (args, index), its local switch `parsing', the argument   *)
(* it is handling (arg, the at-th of args), the characters of a short-form *)
(* argument still to handle, the locals cmd_parser and cmd_callback, and   *)
(* where it is: at the loop test, inside the loop over the characters of a *)
(* short-form argument, or at one of the three statements that follow a    *)
(* command match.                                                          *)
(***************************************************************************)
Frame(p, args) ==
  [p |-> p, args |-> args, index |-> 0, parsing |-> TRUE, pc |-> "loop",
   arg |-> <<>>, at |-> 0, chars |-> <<>>, cmd_parser |-> 0, cmd_callback |-> 0]

Top == stack[Len(stack)]

SetTop(f) == [stack EXCEPT ![Len(stack)] = f]

\* classify without the test for a digit after the dash.
classify_no_digit_test(ps, p, parsing, arg) ==
  IF ~parsing THEN "positional_only"
  ELSE IF arg = <<"-", "-">> THEN "switch"
  ELSE IF StartsWith(arg, <<"-", "-">>) THEN "long"
  ELSE IF StartsWith(arg, <<"-">>)
  THEN (IF arg = <<"-">> THEN "dash_positional" ELSE "short")
  ELSE IF HasKey(ps[p].commands, arg) THEN "command"
  ELSE IF arg = <<"h", "e", "l", "p">> THEN "help"
  ELSE "positional"

\* classify with the test for "--" made before the test of the switch.
classify_switch_first(ps, p, parsing, arg) ==
  IF arg = <<"-", "-">> THEN "switch"
  ELSE IF ~parsing THEN "positional_only"
  ELSE IF StartsWith(arg, <<"-", "-">>) THEN "long"
  ELSE IF StartsWith(arg, <<"-">>)
  THEN (IF arg = <<"-">> \/ IsDigit(arg[2]) THEN "dash_positional" ELSE "short")
  ELSE IF HasKey(ps[p].commands, arg) THEN "command"
  ELSE IF arg = <<"h", "e", "l", "p">> THEN "help"
  ELSE "positional"

\* The branch of the loop body of parse that handles arg.
classify(ps, p, parsing, arg) ==
  IF ~parsing THEN "positional_only"
  ELSE IF arg = <<"-", "-">> THEN "switch"
  ELSE IF StartsWith(arg, <<"-", "-">>) THEN "long"
  ELSE IF StartsWith(arg, <<"-">>)
  THEN (IF arg = <<"-">> \/ IsDigit(arg[2]) THEN "dash_positional" ELSE "short")
  ELSE IF HasKey(ps[p].commands, arg) THEN "command"
  ELSE IF arg = <<"h", "e", "l", "p">> THEN "help"
  ELSE "positional"

\* command_pc without the call of the callback.
command_pc_no_callback(pc) ==
  CASE pc = "match" -> "nested"
    [] pc = "nested" -> "record"
    [] OTHER -> "loop"

\* command_pc with the record of the command before the callback.
command_pc_record_first(pc) ==
  CASE pc = "match" -> "nested"
    [] pc = "nested" -> "record"
    [] pc = "record" -> "callback"
    [] OTHER -> "loop"

\* The statements after a command match, in order: the nested parse, the
\* callback, the record of the command; then the loop test again.
command_pc(pc) ==
  CASE pc = "match" -> "nested"
    [] pc = "nested" -> "callback"
    [] pc = "callback" -> "record"
    [] OTHER -> "loop"

\* help_command that calls stream.next() without asking has_next(): at the
\* end of the stream next() moves the cursor and raises IndexError.
help_command_unguarded(ps, os, p, args, index) ==
  IF index < Len(args)
  THEN LET name == peek(args, index)
       IN IF HasKey(ps[p].commands, name)
          THEN (IF ps[ps[p].commands[name]].helptext.k = "none"
                THEN Outcome(os, index + 1, "raised",
                             Err("TypeError", "exception", name), <<>>, 0)
                ELSE Outcome(os, index + 1, "exit", NoErr,
                             ps[ps[p].commands[name]].helptext.v \o <<"\n">>, 0))
          ELSE Outcome(os, index + 1, "error",
                       Err("UnknownCommand", "is not a recognised command", name),
                       <<>>, 0)
  ELSE Outcome(os, index + 1, "raised", Err("IndexError", "exception", <<>>),
               <<>>, 0)

\* The automatic help command, the cursor being after "help".
help_command(ps, os, p, args, index) ==
  IF has_next(args, index)
  THEN LET name == peek(args, index)
       IN IF HasKey(ps[p].commands, name)
          THEN (IF ps[ps[p].commands[name]].helptext.k = "none"
                THEN Outcome(os, index + 1, "raised",
                             Err("TypeError", "exception", name), <<>>, 0)
                ELSE Outcome(os, index + 1, "exit", NoErr,
                             ps[ps[p].commands[name]].helptext.v \o <<"\n">>, 0))
          ELSE Outcome(os, index + 1, "error",
                       Err("UnknownCommand", "is not a recognised command", name),
                       <<>>, 0)
  ELSE Outcome(os, index, "error",
               Err("MissingHelpTarget", "the help command requires an argument",
                   <<>>),
               <<>>, 0)

\* parse(args) starting from an empty list of positional arguments.
ParseCall_resets ==
  /\ status = "idle" /\ prog = <<>> /\ budget.parses > 0
  /\ status' = "parsing"
  /\ budget' = [budget EXCEPT !.parses = @ - 1]
  /\ \E args \in Inputs(Programs[sc]) :
       /\ stack' = <<Frame(1, args)>>
       /\ input' = args
       /\ log' = Append(log, Event("call", 1, 1, 0, <<>>, Len(args)))
  /\ parsers' = [parsers EXCEPT ![1].arguments = <<>>]
  /\ UNCHANGED <<sc, prog, opts, err, out>>

\* The application calls parse(args) on the root parser.
ParseCall ==
  /\ status = "idle" /\ prog = <<>> /\ budget.parses > 0
  /\ status' = "parsing"
  /\ budget' = [budget EXCEPT !.parses = @ - 1]
  /\ \E args \in Inputs(Programs[sc]) :
       /\ stack' = <<Frame(1, args)>>
       /\ input' = args
       /\ log' = Append(log, Event("call", 1, 1, 0, <<>>, Len(args)))
  /\ UNCHANGED <<sc, prog, parsers, opts, err, out>>

\* The innermost call is at the loop test and the stream has an argument
\* that the loop body handles in branch.
AtLoop(branch) ==
  /\ status = "parsing" /\ stack # <<>>
  /\ Top.pc = "loop"
  /\ has_next(Top.args, Top.index)
  /\ classify(parsers, Top.p, Top.parsing, peek(Top.args, Top.index)) = branch

\* stream.next() returning the argument under the cursor without moving it.
Fetched_cursor_kept(f) ==
  [f EXCEPT !.arg = peek(f.args, f.index), !.at = f.index + 1]

\* The frame once stream.next() has returned its argument.
Fetched(f) ==
  [f EXCEPT !.index = @ + 1, !.arg = peek(f.args, f.index), !.at = f.index + 1]

\* History of the fetch of an argument handled in branch.
Seen(branch) ==
  Event(branch, Top.p, Len(stack), Top.index + 1, peek(Top.args, Top.index), 0)

\* History of an option handler's outcome o for the alias name found in the
\* at-th argument, the cursor having been index on entry.
Handling(o, f, name, index) ==
  (IF o.hit = 0 THEN <<>>
   ELSE <<Event("occ", f.p, Len(stack), f.at, name, o.hit)>>)
  \o [j \in 1..(o.index - index) |->
        Event("value", f.p, Len(stack), index + j, f.args[index + j], o.hit)]

\* Ends with an err() that reports and returns.
Ends_goes_on(o) ==
  CASE o.status = "ok" -> "parsing"
    [] o.status = "error" -> "parsing"
    [] o.status = "exit" -> "exit_ok"
    [] OTHER -> "raised"

\* How the process goes on after a handler's outcome.
Ends(o) ==
  CASE o.status = "ok" -> "parsing"
    [] o.status = "error" -> "exit_err"
    [] o.status = "exit" -> "exit_ok"
    [] OTHER -> "raised"

\* The state after a handler returned outcome o to the innermost call, which
\* goes on as frame f.
Handled(o, f, events) ==
  /\ opts' = o.opts
  /\ stack' = SetTop([f EXCEPT !.index = o.index])
  /\ status' = Ends(o)
  /\ err' = o.err
  /\ out' = IF o.out = <<>> THEN out ELSE Append(out, o.out)
  /\ log' = log \o events
  /\ UNCHANGED <<sc, prog, budget, parsers, input>>

\* The state after an argument was appended to the positionals.
Appended(branch) ==
  /\ parsers' = [parsers EXCEPT ![Top.p].arguments = Append(@, Fetched(Top).arg)]
  /\ stack' = SetTop(Fetched(Top))
  /\ log' = Append(log, Seen(branch))
  /\ UNCHANGED <<sc, prog, budget, opts, status, err, out, input>>

\* Option parsing is off: the argument is a positional.
PositionalOnly == AtLoop("positional_only") /\ Appended("positional_only")

\* "--": option parsing is turned off.
Switch ==
  /\ AtLoop("switch")
  /\ stack' = SetTop([Fetched(Top) EXCEPT !.parsing = FALSE])
  /\ log' = Append(log, Seen("switch"))
  /\ UNCHANGED <<sc, prog, budget, parsers, opts, status, err, out, input>>

\* A long-form option.
LongOption ==
  /\ AtLoop("long")
  /\ LET f == Fetched(Top)
         name == IF Contains(Drop(f.arg, 2), "=")
                 THEN SplitEquals(Drop(f.arg, 2)).name ELSE Drop(f.arg, 2)
     IN \E o \in {parse_longform_option(parsers, opts, f.p, Drop(f.arg, 2),
                                         f.args, f.index)} :
          Handled(o, f, <<Seen("long")>> \o Handling(o, f, name, f.index))

\* "-" or a dash and a digit: a positional.
DashPositional == AtLoop("dash_positional") /\ Appended("dash_positional")

\* A short-form option: -n=value is handled at once, any other enters the
\* loop over its characters.
ShortOption ==
  /\ AtLoop("short")
  /\ LET f == Fetched(Top)
         arg == Drop(f.arg, 1)
     IN IF Contains(arg, "=")
        THEN \E o \in {parse_name_equals_value_option(parsers, opts, f.p,
                                                       <<"-">>, arg, f.index)} :
               Handled(o, f, <<Seen("short")>>
                             \o Handling(o, f, SplitEquals(arg).name, f.index))
        ELSE /\ stack' = SetTop([f EXCEPT !.pc = "short", !.chars = arg])
             /\ log' = Append(log, Seen("short"))
             /\ UNCHANGED <<sc, prog, budget, parsers, opts, status, err, out,
                            input>>

\* One character of a short-form argument.
ShortChar ==
  /\ status = "parsing" /\ stack # <<>>
  /\ Top.pc = "short"
  /\ LET f == Top
         g == [f EXCEPT !.chars = Tail(@),
                        !.pc = IF Tail(f.chars) = <<>> THEN "loop" ELSE "short"]
     IN \E o \in {parse_shortform_char(parsers, opts, f.p, Head(f.chars),
                                        f.args, f.index)} :
          Handled(o, g, Handling(o, f, <<Head(f.chars)>>, f.index))

\* A registered command: the rest of the stream goes to its parser.
Command ==
  /\ AtLoop("command")
  /\ LET f == Fetched(Top)
         nested == parsers[f.p].commands[f.arg]
     IN /\ stack' = Append(SetTop([f EXCEPT !.cmd_parser = nested,
                                            !.cmd_callback = parsers[f.p].callbacks[f.arg],
                                            !.index = remainder(f.args, f.index).index,
                                            !.pc = command_pc("match")]),
                           Frame(nested, remainder(f.args, f.index).rest))
        /\ log' = log \o <<Seen("command"),
                           Event("call", nested, Len(stack) + 1, 0, <<>>,
                                 Len(remainder(f.args, f.index).rest))>>
  /\ UNCHANGED <<sc, prog, budget, parsers, opts, status, err, out, input>>

\* The automatic help command.
Help ==
  /\ AtLoop("help")
  /\ LET f == Fetched(Top)
         o == help_command(parsers, opts, f.p, f.args, f.index)
     IN Handled(o, f, <<Seen("help")>>)

\* Any other argument: a positional.
Positional == AtLoop("positional") /\ Appended("positional")

\* The stream is exhausted: parse returns, to the application or to the
\* statement after the nested parse in the calling parse.
Return ==
  /\ status = "parsing" /\ stack # <<>>
  /\ Top.pc = "loop"
  /\ ~has_next(Top.args, Top.index)
  /\ stack' = IF Len(stack) = 1 THEN <<>>
              ELSE [SubSeq(stack, 1, Len(stack) - 1)
                      EXCEPT ![Len(stack) - 1].pc = command_pc(@)]
  /\ status' = IF Len(stack) = 1 THEN "idle" ELSE "parsing"
  /\ log' = Append(log, Event("return", Top.p, Len(stack), Top.index, <<>>,
                              Len(Top.args)))
  /\ UNCHANGED <<sc, prog, budget, parsers, opts, err, out, input>>

\* cmd_callback(cmd_parser)
Callback ==
  /\ status = "parsing" /\ stack # <<>>
  /\ Top.pc = "callback"
  /\ stack' = SetTop([Top EXCEPT !.pc = command_pc(@)])
  /\ log' = Append(log, Event("callback", Top.p, Len(stack), Top.cmd_callback,
                              Top.arg, Top.cmd_parser))
  /\ UNCHANGED <<sc, prog, budget, parsers, opts, status, err, out, input>>

\* self.cmd_name = arg; self.cmd_parser = cmd_parser
Record ==
  /\ status = "parsing" /\ stack # <<>>
  /\ Top.pc = "record"
  /\ parsers' = [parsers EXCEPT ![Top.p].cmd_name = StrV(Top.arg),
                                ![Top.p].cmd_parser = Top.cmd_parser]
  /\ stack' = SetTop([Top EXCEPT !.pc = command_pc(@)])
  /\ log' = Append(log, Event("record", Top.p, Len(stack), 0, Top.arg,
                              Top.cmd_parser))
  /\ UNCHANGED <<sc, prog, budget, opts, status, err, out, input>>

(***************************************************************************)
(* The mutation API, called by the application on the root parser.         *)
(***************************************************************************)
ApiCall == status = "idle" /\ prog = <<>> /\ budget.api > 0

\* The state after an API call on name, with the k-th value if it takes one,
\* that returned res.
Called(ev, name, k, res) ==
  /\ opts' = res.opts
  /\ status' = IF res.exc = "none" THEN "idle" ELSE "raised"
  /\ err' = IF res.exc = "none" THEN err ELSE Err(res.exc, "exception", name)
  /\ budget' = [budget EXCEPT !.api = @ - 1]
  /\ log' = Append(log, Event(ev, 1, 0, k, name, Lookup(parsers, 1, name)))
  /\ UNCHANGED <<sc, prog, parsers, stack, out, input>>

\* set_flag, set_str, set_int, set_float
SetOpt ==
  /\ ApiCall
  /\ \E name \in Programs[sc].apiNames :
       \E k \in 1..Len(Programs[sc].apiValues) :
         Called("set", name, k,
                set_opt(parsers, opts, 1, name, Programs[sc].apiValues[k]))

UnsetFlag ==
  /\ ApiCall
  /\ \E name \in Programs[sc].apiNames :
       Called("unset", name, 0, unset_flag(parsers, opts, 1, name))

ClearList ==
  /\ ApiCall
  /\ \E name \in Programs[sc].apiNames :
       Called("clear", name, 0, clear_list(parsers, opts, 1, name))

\* parser[key] on the root parser. The history holds the key in i and the
\* positional returned in tok for an integer key, the name in tok for any
\* other.
GetItem ==
  /\ ApiCall
  /\ \E key \in {IntV(n) : n \in (0 - MaxKey)..MaxKey}
                 \cup {StrV(name) : name \in Programs[sc].apiNames} :
       LET res == getitem(parsers, opts, 1, key)
       IN /\ status' = IF res.exc = "none" THEN "idle" ELSE "raised"
          /\ err' = IF res.exc = "none" THEN err
                    ELSE Err(res.exc, "exception", <<>>)
          /\ log' = Append(log,
                           IF key.k = "int"
                           THEN Event("getitem", 1, 0, key.v,
                                      IF res.exc = "none" THEN res.val.v ELSE <<>>, 0)
                           ELSE Event("getopt", 1, 0, 0, key.v,
                                      Lookup(parsers, 1, key.v)))
  /\ budget' = [budget EXCEPT !.api = @ - 1]
  /\ UNCHANGED <<sc, prog, parsers, opts, stack, out, input>>

Next ==
  \/ AddFlag \/ AddStr \/ AddInt \/ AddFloat
  \/ AddFlagList \/ AddStrList \/ AddIntList \/ AddFloatList
  \/ AddCmd
  \/ ParseCall
  \/ PositionalOnly \/ Switch \/ LongOption \/ DashPositional
  \/ ShortOption \/ ShortChar \/ Command \/ Help \/ Positional
  \/ Return \/ Callback \/ Record
  \/ SetOpt \/ UnsetFlag \/ ClearList \/ GetItem

Spec == Init /\ [][Next]_vars

\* A step of a call of parse in progress. parse runs to its end once called:
\* nothing but its own statements decides whether it goes on.
ParseStep ==
  /\ status = "parsing"
  /\ Next

\* The program with parse running on whenever it can.
FairSpec == Spec /\ WF_vars(ParseStep)

(***************************************************************************)
(* Properties.                                                             *)
(***************************************************************************)
Last(s) == s[Len(s)]

Range(s) == {s[j] : j \in 1..Len(s)}

\* The last parse call of the application has returned and nothing was
\* called since.
Finished == status = "idle" /\ log # <<>> /\ Last(log).ev = "return"

\* The history entries that classify an argument.
ClassEvents ==
  {"positional_only", "switch", "long", "dash_positional", "short", "command",
   "help", "positional"}

\* The parser that add_cmd returned for the command name tok of parser p:
\* the last registration of tok counts.
AddCmdParser(p, tok) ==
  LET hits == {j \in 1..Len(log) :
                 /\ log[j].ev = "reg_cmd" /\ log[j].p = p
                 /\ tok \in Range(Split(log[j].tok))}
  IN IF hits = {} THEN 0
     ELSE log[CHOOSE j \in hits : \A h \in hits : h <= j].ref

\* The values an alias of the root parser reads.
RootValues(name) == opts[parsers[1].options[name]].values

Ex_switch == <<T_foo, T_dd, T_dd_bar, T_dd_baz>>
Ex_cmd == <<T_cmd, T_x, T_y, T_dd_flag>>

C1_Example ==
  (Finished /\ sc = 1 /\ input = Ex_switch) =>
     parsers[1].arguments = <<T_foo, T_dd_bar, T_dd_baz>>

C1_Step ==
  /\ \A d \in 1..Len(stack) :
       (status = "parsing" /\ ~stack[d].parsing) =>
         LET p == stack[d].p
         IN /\ Len(stack') <= d
            /\ status' \in {"parsing", "idle"}
            /\ opts' = opts
            /\ parsers'[p].cmd_name = parsers[p].cmd_name
            /\ parsers'[p].cmd_parser = parsers[p].cmd_parser
            /\ IF Len(stack') = d
               THEN /\ ~stack'[d].parsing
                    /\ stack'[d].index = stack[d].index + 1
                    /\ parsers'[p].arguments =
                         Append(parsers[p].arguments,
                                stack[d].args[stack[d].index + 1])
               ELSE /\ stack[d].index = Len(stack[d].args)
                    /\ parsers'[p].arguments = parsers[p].arguments
  /\ (/\ status = "parsing" /\ stack # <<>>
      /\ Top.pc = "loop" /\ Top.parsing
      /\ has_next(Top.args, Top.index)
      /\ peek(Top.args, Top.index) = T_dd) =>
        /\ Len(stack') = Len(stack)
        /\ ~stack'[Len(stack)].parsing
        /\ parsers' = parsers /\ opts' = opts

\* C1: once parse has met "--" with option parsing on, option parsing stays
\* off for the rest of that call: each later argument of that call, whatever
\* its shape, is appended to the positionals in order, no option changes and
\* no command is matched; the "--" itself is not appended.
\* parse(["foo", "--", "--bar", "--baz"]) leaves ["foo", "--bar", "--baz"].
C1_SwitchIsPermanent == [][C1_Step /\ C1_Example']_vars

C1_Witness ==
  /\ Finished /\ sc = 1 /\ input = Ex_switch
  /\ parsers[1].arguments = <<T_foo, T_dd_bar, T_dd_baz>>

C2_Step ==
  \A d \in 1..Len(stack) :
    (status = "parsing" /\ stack[d].pc \in {"nested", "callback", "record"}) =>
      LET p == stack[d].p
      IN /\ parsers'[p].arguments = parsers[p].arguments
         /\ parsers'[p].options = parsers[p].options
         /\ \A a \in DOMAIN parsers[p].options :
              opts'[parsers[p].options[a]] = opts[parsers[p].options[a]]
         /\ Len(stack') >= d
         /\ stack'[d].index = Len(stack[d].args)
         /\ (stack[d].pc = "record" /\ d = Len(stack)) =>
              /\ stack[d].args[stack[d].at] = stack[d].arg
              /\ parsers'[p].cmd_name = StrV(stack[d].arg)
              /\ parsers'[p].cmd_parser = AddCmdParser(p, stack[d].arg)
              /\ parsers'[p].cmd_parser # 0

\* No argument is classified at the depth of a command match after the
\* match, within the same call.
C2_NoResume ==
  \A i, j \in 1..Len(log) :
    (/\ i < j /\ log[i].ev = "command"
     /\ log[j].ev \in ClassEvents /\ log[j].d = log[i].d) =>
       \E k \in (i + 1)..(j - 1) : log[k].ev = "call" /\ log[k].d = log[i].d

C2_Example ==
  (Finished /\ sc = 4 /\ input = Ex_cmd) =>
     /\ parsers[1].arguments = <<>>
     /\ RootValues(T_bool) = <<BoolV(FALSE)>>
     /\ parsers[1].cmd_name = StrV(T_cmd)
     /\ parsers[1].cmd_parser = 2
     /\ parsers[2].arguments = <<T_x, T_y>>
     /\ opts[parsers[2].options[T_flag]].values = <<BoolV(TRUE)>>

\* C2: from the match of a registered command name on, the matching parser
\* classifies no argument: while the nested parse, the callback and the record
\* of the command run, its positionals and its options stay what the arguments
\* before the command produced and its stream is exhausted; the command name
\* recorded is the matched argument and the parser recorded is the one add_cmd
\* returned. parse(["cmd", "x", "y", "--flag"]) leaves the outer positionals
\* empty and x, y, --flag in the nested parser.
C2_CommandTakesTheRest == [][C2_Step /\ C2_NoResume' /\ C2_Example']_vars

C2_Witness ==
  /\ Finished /\ sc = 4 /\ input = <<T_s_b, T_x, T_cmd, T_sub, T_y>>
  /\ parsers[1].arguments = <<T_x>>
  /\ RootValues(T_b) = <<BoolV(TRUE)>>
  /\ parsers[1].cmd_name = StrV(T_cmd)
  /\ parsers[2].cmd_name = StrV(T_sub)
  /\ parsers[3].arguments = <<T_y>>

\* The end in the history of the call that starts at entry c: its return, or
\* the end of the history while it runs.
CallEnd(c) ==
  LET ends == {r \in (c + 1)..Len(log) :
                 log[r].ev \in {"return", "call"} /\ log[r].d = log[c].d}
  IN IF ends = {} THEN Len(log) ELSE CHOOSE r \in ends : \A e \in ends : r <= e

\* How many entries ev the call that starts at entry c has at its own depth.
Count(ev, c) ==
  Cardinality({j \in c..CallEnd(c) : log[j].ev = ev /\ log[j].d = log[c].d})

\* C3: a call of parse that returns has invoked a callback once if it matched
\* a command and never otherwise, and has recorded a matched command at most
\* once; a callback is invoked right after the nested parse has returned with
\* its stream exhausted, the stream holding all the arguments after the
\* command, and it is passed the command's parser.
C3_CallbackOncePerMatch ==
  /\ \A c \in 1..Len(log) :
       log[c].ev = "call" =>
         /\ Count("command", c) <= 1
         /\ Count("record", c) <= 1
         /\ Count("callback", c) <= Count("command", c)
         /\ (log[CallEnd(c)].ev = "return" /\ log[CallEnd(c)].d = log[c].d) =>
              /\ Count("callback", c) = Count("command", c)
              /\ Count("record", c) = Count("command", c)
  /\ \A j \in 1..Len(log) :
       log[j].ev = "callback" =>
         /\ j > 1
         /\ log[j - 1].ev = "return"
         /\ log[j - 1].d = log[j].d + 1
         /\ log[j - 1].p = log[j].ref
         /\ log[j - 1].i = log[j - 1].ref
         /\ log[j].ref = AddCmdParser(log[j].p, log[j].tok)
         /\ log[j].i = parsers[log[j].p].callbacks[log[j].tok]
         /\ \E c, m \in 1..(j - 1) :
              /\ c < m /\ log[c].ev = "call" /\ log[c].d = log[j].d
              /\ log[m].ev = "command" /\ log[m].d = log[j].d
              /\ log[m].tok = log[j].tok
              /\ log[m + 1].ev = "call" /\ log[m + 1].p = log[j].ref
              /\ log[m + 1].ref = log[c].ref - log[m].i
              /\ log[j - 1].ref = log[m + 1].ref

C3_Witness ==
  /\ Finished /\ sc = 4
  /\ Cardinality({j \in 1..Len(log) : log[j].ev = "callback"}) = 2
  /\ Cardinality({j \in 1..Len(log) : log[j].ev = "command"}) = 2
  /\ parsers[1].arguments # <<>>

(***************************************************************************)
(* Occurrences of options, read off the arguments.                         *)
(***************************************************************************)
\* A token that can be the value of an option: not a dash followed by
\* something that is not a digit.
ValueShaped(tok) == ~(Len(tok) > 1 /\ tok[1] = "-" /\ ~IsDigit(tok[2]))

\* The arguments from the (i + 1)-th on that are value-shaped, up to the
\* first that is not.
RECURSIVE Run(_, _)
Run(args, i) ==
  IF i < Len(args) /\ ValueShaped(args[i + 1])
  THEN <<args[i + 1]>> \o Run(args, i + 1)
  ELSE <<>>

NoOcc == [ref |-> 0, form |-> "none", index |-> 0, name |-> <<>>]

Occ(p, name, form, index) ==
  [ref |-> Lookup(parsers, p, name), form |-> form, index |-> index, name |-> name]

\* The occurrence the next step of the innermost parse call handles: the
\* Option (0 for none), the form (long, char, equals), the alias used, and
\* the cursor once the option's own argument is fetched.
PendingOcc ==
  IF status # "parsing" \/ stack = <<>> THEN NoOcc
  ELSE IF Top.pc = "short"
  THEN Occ(Top.p, <<Head(Top.chars)>>, "char", Top.index)
  ELSE IF Top.pc # "loop" \/ ~Top.parsing \/ Top.index >= Len(Top.args)
  THEN NoOcc
  ELSE LET tok == Top.args[Top.index + 1]
       IN IF tok = T_dd \/ ~StartsWith(tok, <<"-">>) \/ ValueShaped(tok) THEN NoOcc
          ELSE IF StartsWith(tok, T_dd)
          THEN (IF Contains(tok, "=")
                THEN Occ(Top.p, SplitEquals(Drop(tok, 2)).name, "equals",
                         Top.index + 1)
                ELSE Occ(Top.p, Drop(tok, 2), "long", Top.index + 1))
          ELSE IF Contains(tok, "=")
          THEN Occ(Top.p, SplitEquals(Drop(tok, 1)).name, "equals", Top.index + 1)
          ELSE NoOcc

\* The entry of the history where the innermost parse call starts.
CallStart ==
  CHOOSE c \in 1..Len(log) :
    /\ log[c].ev = "call" /\ log[c].d = Len(stack)
    /\ \A e \in (c + 1)..Len(log) : ~(log[e].ev = "call" /\ log[e].d = Len(stack))

\* Option ref has occurred before in the innermost parse call.
OccurredBefore(ref) ==
  \E j \in CallStart..Len(log) :
    log[j].ev = "occ" /\ log[j].d = Len(stack) /\ log[j].ref = ref

\* The innermost frame after the step.
TopNext == stack'[Len(stack)]

C4_Step ==
  LET o == PendingOcc
  IN o.ref # 0 =>
       /\ (opts[o.ref].mono /\ OccurredBefore(o.ref)) =>
            /\ status' = "exit_err"
            /\ err'.kind = "DuplicateOption"
            /\ err'.msg = "can be set only once"
            /\ opts' = opts /\ parsers' = parsers
       /\ opts[o.ref].poly => err'.kind # "DuplicateOption"

\* C4: within one parse call a second occurrence of a mono option ends the
\* parse with "can be set only once", whichever alias and whichever form
\* (long, short, a character of a condensed token, name=value) the two
\* occurrences use; an occurrence of a poly option never does.
C4_SecondOccurrenceFails == [][C4_Step]_vars

C4_Witness ==
  /\ status = "exit_err" /\ err.kind = "DuplicateOption"
  /\ sc = 2 /\ input = <<T_dd_string_eq_value, T_s_bsif, T_value>>
  /\ RootValues(T_bool) = <<BoolV(TRUE)>>

Ex_condensed == <<T_s_bsif, T_value, T_n202, T_n2_2>>

C5_Example ==
  (sc = 2 /\ input = Ex_condensed /\ status # "parsing") =>
     /\ Finished
     /\ RootValues(T_bool) = <<BoolV(TRUE)>>
     /\ RootValues(T_string) = <<StrV(T_value)>>
     /\ RootValues(T_int) = <<IntV(202)>>
     /\ RootValues(T_float) = <<[k |-> "float", v |-> <<22, 0 - 1>>]>>
     /\ parsers[1].arguments = <<>>

C5_Step ==
  (status = "parsing" /\ stack # <<>> /\ Top.pc = "short" /\ status' = "parsing") =>
    LET f == Top
        g == TopNext
        r == Lookup(parsers, f.p, <<Head(f.chars)>>)
    IN /\ r # 0
       /\ Len(stack') = Len(stack)
       /\ g.chars = Tail(f.chars)
       /\ g.pc = IF g.chars = <<>> THEN "loop" ELSE "short"
       /\ \A q \in 1..Len(opts) : q # r => opts'[q] = opts[q]
       /\ IF opts[r].type = "bool"
          THEN /\ g.index = f.index
               /\ Last(opts'[r].values) = BoolV(TRUE)
          ELSE /\ f.index < Len(f.args)
               /\ ValueShaped(f.args[f.index + 1])
               /\ g.index >= f.index + 1
               /\ ~opts[r].greedy => g.index = f.index + 1
               /\ opts'[r].values[IF opts[r].mono THEN 1 ELSE Len(opts[r].values) + 1]
                    = try_parse_arg(opts[r].type, f.args[f.index + 1]).val

\* C5: a condensed short token is handled one character per step, left to
\* right: a step that goes on has set the flag of a bool character and left
\* the cursor, or has taken the next, value-shaped, argument (more when
\* greedy) as the value of a non-bool character, before the next character is
\* looked at. With bool b, string s, int i, float f,
\* parse(["-bsif", "value", "202", "2.2"]) gives true, "value", 202, 2.2.
C5_CondensedLeftToRight == [][C5_Step /\ C5_Example']_vars

C5_Witness ==
  /\ Finished /\ sc = 2 /\ input = Ex_condensed
  /\ RootValues(T_i) = <<IntV(202)>>
  /\ RootValues(T_f) = <<[k |-> "float", v |-> <<22, 0 - 1>>]>>

\* The values try_parse_arg gives for the tokens of run.
Coerced(type, run) == [j \in 1..Len(run) |-> try_parse_arg(type, run[j]).val]

Coercible(type, run) ==
  \A j \in 1..Len(run) : try_parse_arg(type, run[j]).status = "ok"

Ex_greedy == <<T_dd_tag, T_a, T_b, T_c>>
Ex_greedy_again == <<T_dd_tag, T_a, T_b, T_c, T_dd_tag, T_d>>

C6_Example ==
  /\ (Finished /\ sc = 3 /\ input = Ex_greedy) =>
        RootValues(T_tag) = <<StrV(T_a), StrV(T_b), StrV(T_c)>>
  /\ (Finished /\ sc = 3 /\ input = Ex_greedy_again) =>
        /\ RootValues(T_tag) = <<StrV(T_a), StrV(T_b), StrV(T_c), StrV(T_d)>>
        /\ len_list(parsers, opts, 1, T_tag).val = 4

\* What one occurrence of a greedy list option does when it is given in one
\* of forms: if the run of value-shaped arguments after it is not empty and
\* converts, the run is appended in order and the cursor is after the run.
C6_Greedy(forms) ==
  LET o == PendingOcc
  IN (/\ o.ref # 0 /\ o.form \in forms
      /\ opts[o.ref].poly /\ opts[o.ref].greedy /\ opts[o.ref].type # "bool") =>
       LET run == Run(Top.args, o.index)
       IN (run # <<>> /\ Coercible(opts[o.ref].type, run)) =>
            /\ status' = "parsing"
            /\ TopNext.index = o.index + Len(run)
            /\ SubSeq(opts'[o.ref].values,
                      Len(opts'[o.ref].values) - Len(run) + 1,
                      Len(opts'[o.ref].values)) = Coerced(opts[o.ref].type, run)
            /\ Len(opts'[o.ref].values) >= Len(opts[o.ref].values) + Len(run)
            /\ o.form # "equals" =>
                 opts'[o.ref].values =
                   opts[o.ref].values \o Coerced(opts[o.ref].type, run)

\* A name=value occurrence of a list option, greedy or not, appends the value
\* of the token and takes no argument from the stream.
C6_Equals ==
  LET o == PendingOcc
  IN (/\ o.ref # 0 /\ o.form = "equals" /\ opts[o.ref].poly
      /\ status' = "parsing") =>
       /\ TopNext.index = o.index
       /\ Len(opts'[o.ref].values) = Len(opts[o.ref].values) + 1

\* C6 as claimed: one occurrence of a greedy list option, in any form, appends
\* every consecutive value-shaped argument that follows it.
C6_GreedyAnyForm == [][C6_Greedy({"long", "char", "equals"})]_vars

\* C6, amended: one occurrence of a greedy list option in long form or as a
\* short-form character appends, in order, every consecutive value-shaped
\* argument that follows it, up to the first that is not value-shaped ("--"
\* too) or the end of the stream, and a later occurrence appends to the same
\* list; a name=value occurrence appends its own value only and takes no
\* argument. With a greedy string list tag, parse(["--tag", "a", "b", "c"])
\* gives ["a", "b", "c"] and a further --tag d gives length 4.
C6_GreedyTakesTheRun ==
  [][C6_Greedy({"long", "char"}) /\ C6_Equals /\ C6_Example']_vars

C6_Witness ==
  /\ Finished /\ sc = 3 /\ input = Ex_greedy_again
  /\ RootValues(T_t) = <<StrV(T_a), StrV(T_b), StrV(T_c), StrV(T_d)>>

\* C7: a list option registered without a greedy argument takes all the
\* value-shaped arguments that follow one occurrence:
\* parse(["--string", "foo", "bar", "--string", "baz"]) gives a list of length
\* 3, ["foo", "bar", "baz"], and so do the short form and the mixed forms
\* (test_string_list_*, test_int_list_*).
C7_DefaultListTakesAll ==
  /\ (/\ Finished /\ sc = 3
      /\ input \in {<<T_dd_string, T_foo, T_bar, T_dd_string, T_baz>>,
                    <<T_s_s, T_foo, T_bar, T_s_s, T_baz>>,
                    <<T_dd_string, T_foo, T_bar, T_s_s, T_baz>>}) =>
        /\ len_list(parsers, opts, 1, T_string).val = 3
        /\ get_poly_opt(parsers, opts, 1, T_string).val =
             <<StrV(T_foo), StrV(T_bar), StrV(T_baz)>>
  /\ (Finished /\ sc = 3
      /\ input = <<T_dd_int, T_n123, T_n456, T_dd_int, T_n789>>) =>
        /\ len_list(parsers, opts, 1, T_int).val = 3
        /\ get_poly_opt(parsers, opts, 1, T_int).val =
             <<IntV(123), IntV(456), IntV(789)>>

\* No call of the API has changed an option from outside a parse.
NoApi == \A j \in 1..Len(log) : log[j].ev \notin {"set", "unset", "clear"}

\* The application has called parse once only.
FirstCall ==
  Cardinality({j \in 1..Len(log) : log[j].ev = "call" /\ log[j].d = 1}) = 1

\* Option ref has occurred in some parse call.
Occurred(ref) == \E j \in 1..Len(log) : log[j].ev = "occ" /\ log[j].ref = ref

\* The registration call that made option ref.
RegCall(ref) ==
  LET j == CHOOSE e \in 1..Len(log) : log[e].ev = "reg_opt" /\ log[e].ref = ref
  IN CHOOSE c \in Range(Programs[sc].regs) :
       c.name = log[j].tok /\ c.on = log[j].p

\* The values option ref is registered with: the default of a single-valued
\* option, false for a flag, no value for a list.
Initial(ref) ==
  LET c == RegCall(ref)
  IN IF c.op = "add_flag" THEN <<BoolV(FALSE)>>
     ELSE IF c.op \in {"add_str", "add_int", "add_float"} THEN <<c.arg>>
     ELSE <<>>

C8_Untouched ==
  NoApi => \A r \in 1..Len(opts) :
             ~Occurred(r) => opts[r].values = Initial(r) /\ ~opts[r].found

C8_Frame ==
  (status = "parsing" \/ status' = "parsing") =>
     /\ Len(opts') = Len(opts)
     /\ \A r \in 1..Len(opts) : opts'[r] # opts[r] => PendingOcc.ref = r

C8_Example ==
  /\ (Finished /\ NoApi /\ FirstCall
        /\ \A j \in 1..Len(input) : ~StartsWith(input[j], <<"-">>)) =>
        \A r \in 1..Len(opts) : opts[r].values = Initial(r)
  /\ (Finished /\ sc = 2 /\ input = <<T_s_b, T_value>>) =>
        /\ RootValues(T_string) = <<StrV(T_default)>>
        /\ RootValues(T_int) = <<IntV(101)>>
        /\ RootValues(T_float) = <<[k |-> "float", v |-> <<11, 0 - 1>>]>>

\* C8: parsing changes only the options that occur in the arguments: an
\* option that has not occurred holds what it was registered with (its
\* default; false for a flag; no value for a list), and a step of a parse
\* changes no option but the one whose occurrence it handles.
C8_OnlyOccurringOptionsChange == [][C8_Frame /\ C8_Untouched' /\ C8_Example']_vars

C8_Witness ==
  /\ Finished /\ sc = 2 /\ input = <<T_s_b, T_value>>
  /\ RootValues(T_b) = <<BoolV(TRUE)>>
  /\ RootValues(T_s) = <<StrV(T_default)>>
  /\ parsers[1].arguments = <<T_value>>

\* The aliases of the registration recorded at entry j of the history are
\* still bound as that registration bound them.
NotRebound(j) ==
  \A e \in (j + 1)..Len(log) :
    (log[e].ev = "reg_opt" /\ log[e].p = log[j].p) =>
       Range(Split(log[e].tok)) \cap Range(Split(log[j].tok)) = {}

C9_Shared ==
  \A j \in 1..Len(log) :
    (log[j].ev = "reg_opt" /\ NotRebound(j)) =>
       \A a, b \in Range(Split(log[j].tok)) :
         /\ Lookup(parsers, log[j].p, a) # 0
         /\ Lookup(parsers, log[j].p, a) = Lookup(parsers, log[j].p, b)
         /\ get_mono_opt(parsers, opts, log[j].p, a)
              = get_mono_opt(parsers, opts, log[j].p, b)
         /\ get_poly_opt(parsers, opts, log[j].p, a)
              = get_poly_opt(parsers, opts, log[j].p, b)
         /\ len_list(parsers, opts, log[j].p, a)
              = len_list(parsers, opts, log[j].p, b)

C9_Example ==
  (Finished /\ sc = 2 /\ input = <<T_s_b>>) =>
     get_mono_opt(parsers, opts, 1, T_bool) = [exc |-> "none", val |-> BoolV(TRUE)]

\* C9: the aliases of one registration name one option: whatever is set,
\* unset, cleared or parsed through one alias is what every other alias of
\* the registration reads. With add_flag("bool b"), after parse(["-b"]) the
\* flag read as "bool" is true.
C9_AliasesShareOneOption == C9_Shared /\ C9_Example

C9_Witness ==
  /\ sc = 5 /\ status = "idle" /\ budget.parses = 0
  /\ Last(log).ev = "set" /\ Last(log).tok = T_b
  /\ get_mono_opt(parsers, opts, 1, T_bool).val = StrV(T_x)
  /\ RootValues(T_list) # <<>>

\* A lone dash, or a dash followed by a digit.
DashOrDigit(tok) ==
  tok = <<"-">> \/ (Len(tok) >= 2 /\ tok[1] = "-" /\ IsDigit(tok[2]))

C10_Step ==
  (/\ status = "parsing" /\ stack # <<>>
   /\ Top.pc = "loop" /\ Top.parsing /\ Top.index < Len(Top.args)
   /\ DashOrDigit(Top.args[Top.index + 1])) =>
     /\ status' = "parsing" /\ err' = err /\ opts' = opts
     /\ Len(stack') = Len(stack)
     /\ TopNext.index = Top.index + 1 /\ TopNext.pc = "loop" /\ TopNext.parsing
     /\ parsers' = [parsers EXCEPT ![Top.p].arguments =
                                      Append(@, Top.args[Top.index + 1])]

C10_Example ==
  (sc = 1 /\ input = <<T_m5, T_dash>> /\ status # "parsing" /\ input # <<>>
   /\ Last(log).ev = "return") =>
     /\ Finished
     /\ parsers[1].arguments = <<T_m5, T_dash>>
     /\ RootValues(T_5) = <<BoolV(FALSE)>>

\* C10: while options are recognised, the argument "-" and any argument that
\* is a dash followed by a digit are positionals and are never looked up as
\* options, also when an option of that character is registered: with a flag
\* "5" registered, parse(["-5", "-"]) leaves the flag false and has the
\* positionals ["-5", "-"].
C10_DashAndNumbersArePositional == [][C10_Step /\ C10_Example']_vars

C10_Witness ==
  /\ Finished /\ sc = 1 /\ input = <<T_m5, T_dash>>
  /\ parsers[1].arguments = <<T_m5, T_dash>>
  /\ HasKey(parsers[1].options, T_5)
  /\ RootValues(T_5) = <<BoolV(FALSE)>>

C11_Step ==
  LET o == PendingOcc
  IN (/\ o.ref # 0 /\ o.form \in {"long", "char"}
      /\ opts[o.ref].type # "bool" /\ ~(opts[o.ref].mono /\ Occurred(o.ref))) =>
       IF o.index < Len(Top.args) /\ ValueShaped(Top.args[o.index + 1])
       THEN /\ err'.kind # "MissingArgument"
            /\ parsers' = parsers
            /\ TopNext.index >= o.index + 1
            /\ status' = "parsing" =>
                 opts'[o.ref].values[IF opts[o.ref].mono THEN 1
                                     ELSE Len(opts[o.ref].values) + 1]
                   = try_parse_arg(opts[o.ref].type, Top.args[o.index + 1]).val
       ELSE /\ status' = "exit_err"
            /\ err'.kind = "MissingArgument"
            /\ TopNext.index = o.index
            /\ parsers' = parsers
            /\ \A q \in 1..Len(opts) : opts'[q].values = opts[q].values

C11_Example ==
  /\ (sc = 2 /\ input = <<T_dd_int, T_m5>> /\ status # "parsing") =>
        /\ Finished
        /\ RootValues(T_int) = <<IntV(0 - 5)>>
        /\ parsers[1].arguments = <<>>
  /\ (sc = 2 /\ input = <<T_s_s, T_dash, T_dd_int>> /\ status # "parsing") =>
        /\ status = "exit_err" /\ err.kind = "MissingArgument"
        /\ RootValues(T_string) = <<StrV(T_dash)>>
        /\ RootValues(T_int) = <<IntV(101)>>
        /\ parsers[1].arguments = <<>>

\* C11: an occurrence, in long form or as a short-form character, of an
\* option that is not a flag and has not occurred before fails with "missing
\* argument" and leaves the cursor where it is when the stream is exhausted
\* or its next argument is not value-shaped; a value-shaped next argument,
\* "-" and a dash followed by a digit included, is taken as the value and is
\* not a positional: --int -5 stores -5.
C11_MissingArgument == [][C11_Step /\ C11_Example']_vars

C11_Witness ==
  /\ status = "exit_err" /\ err.kind = "MissingArgument"
  /\ sc = 2 /\ input = <<T_s_s, T_dash, T_dd_int>>
  /\ RootValues(T_string) = <<StrV(T_dash)>>

\* The values of all the options are what they were.
ValuesKept == \A q \in 1..Len(opts) : opts'[q].values = opts[q].values

\* The text after the first "=" of the argument the innermost call is about
\* to fetch.
PendingValue ==
  LET tok == Top.args[Top.index + 1]
  IN Drop(tok, IndexOf(tok, "="))

C12_Step ==
  LET o == PendingOcc
  IN (/\ o.ref # 0 /\ o.form = "equals"
      /\ ~(opts[o.ref].mono /\ Occurred(o.ref))) =>
       /\ opts[o.ref].type = "bool" =>
            /\ status' = "exit_err" /\ err'.kind = "TypeMismatch"
            /\ err'.msg = "invalid format for boolean flag"
            /\ ValuesKept /\ parsers' = parsers
       /\ (opts[o.ref].type # "bool" /\ PendingValue = <<>>) =>
            /\ status' = "exit_err" /\ err'.kind = "EmptyValue"
            /\ err'.msg = "missing argument for the option"
            /\ ValuesKept /\ parsers' = parsers

C12_Example ==
  /\ (sc = 2 /\ input = <<T_dd_string_eq>> /\ status # "parsing") =>
        /\ status = "exit_err" /\ err.kind = "EmptyValue"
        /\ RootValues(T_string) = <<StrV(T_default)>>
  /\ (sc = 2 /\ input = <<T_dd_bool_eq_x>> /\ status # "parsing") =>
        /\ status = "exit_err" /\ err.kind = "TypeMismatch"
        /\ RootValues(T_bool) = <<BoolV(FALSE)>>

Numeric(type, tok) ==
  IF type = "int" THEN ToInt(tok).ok
  ELSE IF type = "float" THEN ToFloat(tok).ok
  ELSE TRUE

\* The longest prefix of run whose tokens all are literals of type.
RECURSIVE NumericPrefix(_, _)
NumericPrefix(type, run) ==
  IF run # <<>> /\ Numeric(type, Head(run))
  THEN <<Head(run)>> \o NumericPrefix(type, Tail(run))
  ELSE <<>>

\* The arguments that the pending occurrence o of a non-flag option takes
\* from the stream: the next one if it is value-shaped, the whole run of
\* value-shaped ones if the option is greedy.
Taken(o) ==
  LET run == Run(Top.args, o.index)
  IN IF o.form = "equals" \/ run = <<>> THEN <<>>
     ELSE IF opts[o.ref].greedy THEN run
     ELSE <<Head(run)>>

C13_Step ==
  LET o == PendingOcc
  IN (/\ o.ref # 0 /\ opts[o.ref].type \in {"int", "float"}
      /\ ~(opts[o.ref].mono /\ Occurred(o.ref))) =>
       LET type == opts[o.ref].type
           good == NumericPrefix(type, Taken(o))
       IN /\ (o.form = "equals" /\ PendingValue # <<>>
              /\ ~Numeric(type, PendingValue)) =>
               /\ status' = "exit_err" /\ err'.kind = "InvalidNumericLiteral"
               /\ ValuesKept
          /\ (o.form # "equals" /\ good # Taken(o)) =>
               /\ status' = "exit_err" /\ err'.kind = "InvalidNumericLiteral"
               /\ err'.subject = Taken(o)[Len(good) + 1]
               /\ \A q \in 1..Len(opts) : q # o.ref => opts'[q].values = opts[q].values
               /\ opts'[o.ref].values =
                    IF opts[o.ref].mono THEN opts[o.ref].values
                    ELSE opts[o.ref].values \o Coerced(type, good)

C13_Example ==
  /\ (sc = 2 /\ input = <<T_s_i, T_value>> /\ status # "parsing") =>
        /\ status = "exit_err" /\ err.kind = "InvalidNumericLiteral"
        /\ RootValues(T_int) = <<IntV(101)>>
  /\ (sc = 2 /\ input = <<T_s_bsif, T_value, T_n202, T_value>>
      /\ status # "parsing") =>
        /\ status = "exit_err" /\ err.kind = "InvalidNumericLiteral"
        /\ RootValues(T_float) = <<[k |-> "float", v |-> <<11, 0 - 1>>]>>

\* C13: when an argument taken as the value of an int or float option (the
\* argument after the option, one of a greedy run, or the text after "=") is
\* not a literal of that type, the parse ends with an error exit, "cannot
\* parse", and that argument changes no value: a mono option keeps its
\* value, a list has only the values of the arguments before it.
C13_InvalidNumericLiteral == [][C13_Step /\ C13_Example']_vars

C13_Witness ==
  /\ status = "exit_err" /\ err.kind = "InvalidNumericLiteral"
  /\ sc = 3 /\ input = <<T_dd_float, T_n123, T_a>>
  /\ Len(RootValues(T_float)) = 1

\* The innermost call is at the loop test with option parsing on and an
\* argument to fetch.
AtOption ==
  /\ status = "parsing" /\ stack # <<>>
  /\ Top.pc = "loop" /\ Top.parsing /\ Top.index < Len(Top.args)

\* The automatic --help or --version is active for the long-form name on the
\* parser of the innermost call.
Automatic(name) ==
  \/ name = T_help /\ parsers[Top.p].helptext # None
  \/ name = T_version /\ parsers[Top.p].version # None

\* The step ends the process with "is not a recognised option" and changes
\* nothing else.
FailsUnknown ==
  /\ status' = "exit_err" /\ err'.kind = "UnknownOption"
  /\ err'.msg = "is not a recognised option"
  /\ parsers' = parsers /\ opts' = opts

C14_Step ==
  LET o == PendingOcc
  IN /\ (o.form = "long" /\ o.ref = 0 /\ ~Automatic(o.name)) => FailsUnknown
     /\ (o.form = "equals" /\ o.ref = 0) => FailsUnknown
     /\ (o.form = "char" /\ o.ref = 0) => FailsUnknown
     /\ (AtOption /\ ~ValueShaped(Top.args[Top.index + 1])) => parsers' = parsers
     /\ (/\ status = "parsing" /\ stack # <<>> /\ Top.pc = "short"
         /\ \E j \in 1..Len(Top.chars) : Lookup(parsers, Top.p, <<Top.chars[j]>>) = 0
         /\ status' = "parsing") =>
           /\ TopNext.pc = "short" /\ TopNext.chars = Tail(Top.chars)
           /\ Lookup(parsers, Top.p, <<Head(Top.chars)>>) # 0

C14_Example ==
  /\ (sc = 1 /\ input = <<T_dd_bar>> /\ status # "parsing") =>
        status = "exit_err" /\ err.kind = "UnknownOption"
  /\ (sc = 1 /\ input = <<T_dd_help>> /\ status # "parsing") =>
        status = "exit_err" /\ err.kind = "UnknownOption"
  /\ (sc = 4 /\ input = <<T_dd_help>> /\ status # "parsing") =>
        status = "exit_ok" /\ out = <<N_usage \o <<"\n">>>>
  /\ (sc = 1 /\ input = <<T_s_vx>> /\ status # "parsing") =>
        /\ status = "exit_err" /\ err.kind = "UnknownOption"
        /\ parsers[1].arguments = <<>>

\* C14: while options are recognised, a long-form argument whose name is not
\* a registered alias (and is not --help or --version on a parser that has a
\* help text or a version) ends the parse with "is not a recognised option",
\* and so does the character of a short-form argument that is not a
\* registered alias when the loop over the characters reaches it; a
\* short-form argument with such a character is never got past, and no such
\* argument is ever appended to the positionals.
C14_UnknownOption == [][C14_Step /\ C14_Example']_vars

C14_Witness ==
  /\ status = "exit_err" /\ err.kind = "UnknownOption"
  /\ sc = 1 /\ input = <<T_foo, T_s_vx>>
  /\ RootValues(T_v) = <<BoolV(TRUE)>>
  /\ parsers[1].arguments = <<T_foo>>

\* The bare word help is the next argument of the innermost call, options
\* being recognised, and it is not the name of a registered command.
AtBareHelp ==
  /\ AtOption
  /\ Top.args[Top.index + 1] = T_help
  /\ ~HasKey(parsers[Top.p].commands, T_help)

C15_Step ==
  AtBareHelp =>
    IF DOMAIN parsers[Top.p].commands # {}
    THEN IF Top.index + 1 >= Len(Top.args)
         THEN status' = "exit_err" /\ err'.kind = "MissingHelpTarget"
         ELSE IF HasKey(parsers[Top.p].commands, Top.args[Top.index + 2])
         THEN status' \in {"exit_ok", "raised"}
         ELSE status' = "exit_err" /\ err'.kind = "UnknownCommand"
    ELSE /\ status' = "parsing"
         /\ parsers' = [parsers EXCEPT ![Top.p].arguments = Append(@, T_help)]
         /\ TopNext.index = Top.index + 1

\* C15: the bare word help is the help command (it takes the next argument
\* as a command name; "requires an argument" if there is none, "is not a
\* recognised command" if it is not registered) only on a parser that has a
\* registered command; on a parser without commands it is appended to the
\* positionals like any other bare word and the parse goes on.
C15_HelpOnlyWithCommands == [][C15_Step]_vars

\* The API call that the step has just returned from, if it is one on a
\* registered alias that raised nothing; else an entry with ev "none".
ApiReturned ==
  IF /\ Len(log') = Len(log) + 1
     /\ Last(log').ev \in {"set", "unset", "clear"}
     /\ Last(log').ref # 0
     /\ status' = "idle"
  THEN Last(log')
  ELSE Event("none", 0, 0, 0, <<>>, 0)

\* The aliases the root parser binds to option ref.
AliasesOf(ref) == {a \in DOMAIN parsers[1].options : parsers[1].options[a] = ref}

C16_Step ==
  LET e == ApiReturned
      r == e.ref
  IN e.ev # "none" =>
       \A a \in AliasesOf(r) :
         /\ (e.ev = "set" /\ opts[r].mono) =>
              get_mono_opt(parsers', opts', 1, a)
                = [exc |-> "none", val |-> Programs[sc].apiValues[e.i]]
         /\ (e.ev = "set" /\ opts[r].poly) =>
              /\ get_poly_opt(parsers', opts', 1, a)
                   = [exc |-> "none",
                      val |-> Append(opts[r].values, Programs[sc].apiValues[e.i])]
              /\ len_list(parsers', opts', 1, a).val = Len(opts[r].values) + 1
         /\ (e.ev \in {"clear", "unset"} /\ opts[r].poly) =>
              /\ get_poly_opt(parsers', opts', 1, a) = [exc |-> "none", val |-> <<>>]
              /\ len_list(parsers', opts', 1, a) = [exc |-> "none", val |-> 0]
         /\ (e.ev = "unset" /\ opts[r].mono) =>
              get_mono_opt(parsers', opts', 1, a)
                = [exc |-> "none", val |-> BoolV(FALSE)]

\* C16: right after set(alias, v) has returned on a mono option, reading the
\* option through any of its aliases gives v; right after clear_list or
\* unset_flag on a list option, reading it gives the empty list and its
\* length is 0; set on a list option appends: reading gives the list as it
\* was, followed by v.
C16_SetGetRoundTrip == [][C16_Step]_vars

C16_Witness ==
  /\ sc = 5 /\ status = "idle" /\ budget.api = 0
  /\ Last(log).ev = "set" /\ Last(log).tok = T_list
  /\ RootValues(T_l) = <<StrV(T_x), BoolV(TRUE)>>
  /\ budget.parses = 0

\* C17: whatever registrations, set, unset_flag, clear_list, len_list and
\* parse calls on registered aliases have been made, the list of values of
\* every mono option has exactly one element, so that reading a registered
\* mono alias gives a value.
C17_MonoHasOneValue ==
  /\ \A r \in 1..Len(opts) : opts[r].mono => Len(opts[r].values) = 1
  /\ \A p \in 1..Len(parsers) : \A a \in DOMAIN parsers[p].options :
       opts[parsers[p].options[a]].mono =>
         get_mono_opt(parsers, opts, p, a).exc = "none"

\* The integer-keyed parser[i] that the step has just made, if it is one;
\* else an entry with ev "none".
Indexed ==
  IF Len(log') = Len(log) + 1 /\ Last(log').ev = "getitem"
  THEN Last(log')
  ELSE Event("none", 0, 0, 0, <<>>, 0)

C18_Step ==
  LET e == Indexed
  IN e.ev # "none" =>
       IF 0 <= e.i /\ e.i < Len(parsers[1].arguments)
       THEN status' = "idle" /\ e.tok = parsers[1].arguments[e.i + 1]
       ELSE status' = "raised" /\ err'.kind = "ParserError"

\* C18: parser[i] for an integer i gives the i-th positional, counted from
\* 0, when 0 <= i < the number of positionals, and raises the library's
\* ParserError, returning nothing, for every other integer: i at or past the
\* number of positionals, and every negative i.
C18_IndexIsBoundsChecked == [][C18_Step]_vars

\* The length of the longest argument of the application's parse call.
RECURSIVE MaxTokenLen(_)
MaxTokenLen(args) ==
  IF args = <<>> THEN 0
  ELSE LET m == MaxTokenLen(Tail(args))
       IN IF Len(Head(args)) > m THEN Len(Head(args)) ELSE m

\* The statements a frame has left after a command match.
AfterMatch(pc) ==
  CASE pc = "nested" -> 3
    [] pc = "callback" -> 2
    [] pc = "record" -> 1
    [] OTHER -> 0

\* What the calls on the stack s have left to do: the arguments still in
\* each stream, weighted above the characters of a short-form argument and
\* the statements after a command match.
RECURSIVE Remaining(_)
Remaining(s) ==
  IF s = <<>> THEN 0
  ELSE (MaxTokenLen(input) + 4) * (Len(Head(s).args) - Head(s).index)
       + Len(Head(s).chars) + AfterMatch(Head(s).pc) + Remaining(Tail(s))

C19_Step ==
  status = "parsing" =>
    /\ status' = "parsing" => Remaining(stack') < Remaining(stack)
    /\ (Top.pc = "loop" /\ Top.index < Len(Top.args)) =>
         /\ stack'[Len(stack)].index >= Top.index + 1
         /\ Len(stack') > Len(stack) =>
              /\ stack'[Len(stack)].index = Len(Top.args)
              /\ Len(stack') = Len(stack) + 1
              /\ Last(stack').args = Drop(Top.args, Top.index + 1)
              /\ Last(stack').index = 0
    /\ Top.pc = "short" =>
         /\ stack'[Len(stack)].index >= Top.index
         /\ Len(stack'[Len(stack)].chars) < Len(Top.chars)
    /\ \A j \in 1..(Len(stack) - 1) : stack'[j].index = stack[j].index
    /\ LET new == SubSeq(log', Len(log) + 1, Len(log'))
           taken == {j \in 1..Len(new) : new[j].ev = "value"}
       IN /\ Len(stack') = Len(stack) =>
               stack'[Len(stack)].index - Top.index
                 >= Cardinality(taken) + (IF Top.pc = "loop" /\ Top.index < Len(Top.args)
                                         THEN 1 ELSE 0)
          /\ Top.pc = "loop" /\ Top.index >= Len(Top.args) =>
               Len(stack') = Len(stack) - 1

\* C19: a call of parse on a finite list of arguments ends: it returns, or
\* the process ends with an error exit, a help or version exit, or an
\* exception. Every pass of the main loop moves the cursor on by at least
\* one argument, every argument a greedy occurrence takes moves it on by
\* one, a command match hands the whole remainder to the nested call and
\* leaves nothing in the stream, and every step of a parse lessens what the
\* calls in progress have left to do.
C19_ParseTerminates ==
  /\ [][C19_Step]_vars
  /\ (status = "parsing") ~> (status # "parsing")

C19_Witness ==
  /\ Finished /\ sc = 4 /\ input = <<T_s_b, T_cmd, T_sub>>
  /\ parsers[1].cmd_parser = 2 /\ parsers[2].cmd_parser = 3

\* s is the beginning of t.
IsPrefix(s, t) == Len(s) <= Len(t) /\ SubSeq(t, 1, Len(s)) = s

\* The calls of parse made by the application, as history entries.
TopCalls == {j \in 1..Len(log) : log[j].ev = "call" /\ log[j].d = 1}

\* The entries of kinds evs that the application's call c has of its own,
\* those about option ref if ref is not 0.
Entries(c, evs, ref) ==
  SelectSeq(SubSeq(log, c, CallEnd(c)),
            LAMBDA e : e.ev \in evs /\ e.d = 1 /\ (ref = 0 \/ e.ref = ref))

\* The arguments that call c handled as positionals, in order.
PositionalsOf(c) ==
  LET es == Entries(c, {"positional", "positional_only", "dash_positional"}, 0)
  IN [j \in 1..Len(es) |-> es[j].tok]

\* The values that call c gave to the list option ref, in order: true for
\* each occurrence of a flag, the converted argument for each argument taken
\* from the stream.
ValuesOf(c, ref) ==
  IF opts[ref].type = "bool"
  THEN [j \in 1..Len(Entries(c, {"occ"}, ref)) |-> BoolV(TRUE)]
  ELSE LET es == Entries(c, {"value"}, ref)
       IN Coerced(opts[ref].type, [j \in 1..Len(es) |-> es[j].tok])

\* The start of a call of parse changes no parser and no option, and a step
\* of a call only appends to positional lists and to the lists of options.
C20_Step ==
  /\ (status = "idle" /\ status' = "parsing") =>
        /\ parsers' = parsers
        /\ opts' = opts
  /\ status = "parsing" =>
        /\ \A p \in 1..Len(parsers) :
             IsPrefix(parsers[p].arguments, parsers'[p].arguments)
        /\ \A r \in 1..Len(opts) :
             ~opts[r].mono => IsPrefix(opts[r].values, opts'[r].values)

\* After the calls of parse made so far have returned, the positional list
\* is the positionals of the first followed by those of the second, and so is
\* the list of each list option after two calls.
C20_Accumulated ==
  (Finished /\ TopCalls # {}) =>
    LET a == CHOOSE c \in TopCalls : \A e \in TopCalls : c <= e
        b == CHOOSE c \in TopCalls : \A e \in TopCalls : e <= c
    IN IF a = b
       THEN parsers[1].arguments = PositionalsOf(a)
       ELSE /\ Cardinality(TopCalls) = 2
            /\ parsers[1].arguments = PositionalsOf(a) \o PositionalsOf(b)
            /\ \A r \in 1..Len(opts) :
                 ~opts[r].mono =>
                   opts[r].values = ValuesOf(a, r) \o ValuesOf(b, r)

\* C20: a parser is never reset between calls of parse: after parse(A) and
\* then parse(B) on the same parser, both returning, the positional list is
\* the positionals of A followed by those of B, and the list of each list
\* option is the values appended by A followed by those appended by B.
C20_NeverReset ==
  /\ [][C20_Step]_vars
  /\ []C20_Accumulated

C20_Witness ==
  /\ Finished /\ sc = 6 /\ Cardinality(TopCalls) = 2
  /\ input = <<T_dd_list, T_x, T_y>>
  /\ parsers[1].arguments = <<T_x, T_y>>
  /\ RootValues(T_list) = <<StrV(T_y), StrV(T_x)>>

\* The occurrences of option ref of parser p that the argument list args
\* holds before its first "--": a long-form argument naming it, or a
\* character of a short-form argument without "=" naming it. An occurrence is
\* the pair of its argument's position and its character's.
OccurrencesIn(args, p, ref) ==
  {<<j, c>> \in (1..Len(args)) \X (1..MaxTokenLen(args)) :
     /\ \A e \in 1..j : args[e] # T_dd
     /\ ~ValueShaped(args[j])
     /\ ~Contains(args[j], "=")
     /\ IF StartsWith(args[j], T_dd)
        THEN c = 1 /\ Lookup(parsers, p, Drop(args[j], 2)) = ref
        ELSE /\ 1 < c /\ c <= Len(args[j])
             /\ Lookup(parsers, p, <<args[j][c]>>) = ref}

\* An occurrence of a list of flags appends one true to its list, changes no
\* other option and takes no argument from the stream.
C21_Step ==
  LET o == PendingOcc
  IN (/\ o.ref # 0 /\ o.form \in {"long", "char"}
      /\ opts[o.ref].type = "bool" /\ opts[o.ref].poly) =>
       /\ status' = "parsing"
       /\ opts'[o.ref].values = Append(opts[o.ref].values, BoolV(TRUE))
       /\ \A q \in 1..Len(opts) : q # o.ref => opts'[q] = opts[q]
       /\ parsers' = parsers
       /\ TopNext.index = o.index
       /\ TopNext.args = Top.args

\* After a first call of parse that returned, on a parser without commands,
\* a list of flags holds as many values as the arguments hold occurrences of
\* it, all of them true.
C21_Count ==
  (Finished /\ FirstCall /\ NoApi /\ DOMAIN parsers[1].commands = {}) =>
    \A r \in 1..Len(opts) :
      (opts[r].type = "bool" /\ opts[r].poly) =>
        /\ Len(opts[r].values) = Cardinality(OccurrencesIn(input, 1, r))
        /\ \A j \in 1..Len(opts[r].values) : opts[r].values[j] = BoolV(TRUE)

C21_Example ==
  (Finished /\ sc = 3 /\ input \in {<<T_s_b, T_s_bb>>, <<T_dd_bool, T_s_bb>>}) =>
    RootValues(T_bool) = <<BoolV(TRUE), BoolV(TRUE), BoolV(TRUE)>>

\* C21: each occurrence of a list of flags, a long-form argument or a
\* character of a short-form one, appends exactly one true and takes no
\* argument from the stream; after a parse that returned the list is as long
\* as the number of occurrences through all the aliases: -b -bb and
\* --bool -bb both give three.
C21_FlagListCountsOccurrences ==
  /\ [][C21_Step]_vars
  /\ [](C21_Count /\ C21_Example)

C21_Witness ==
  /\ Finished /\ sc = 3 /\ input = <<T_dd_bool, T_s_bb>>
  /\ Len(RootValues(T_b)) = 3

\* The call of the API the step makes with a name that the root parser binds
\* to no option; no entry when the step is no such call.
ApiUnbound ==
  IF /\ Len(log') = Len(log) + 1
     /\ Last(log').ev \in {"set", "unset", "clear", "getopt"}
     /\ ~HasKey(parsers[1].options, Last(log').tok)
  THEN Last(log')
  ELSE Event("none", 0, 0, 0, <<>>, 0)

\* A set, unset, clear or parser[name] with an unbound name raises
\* ParserError and changes no option, no positional and no matched command.
C22_Step ==
  ApiUnbound.ev # "none" =>
    /\ status' = "raised"
    /\ err'.kind = "ParserError"
    /\ opts' = opts
    /\ parsers' = parsers

\* The getters and len_list raise ParserError for every unbound name.
C22_Getters ==
  \A name \in Programs[sc].apiNames \cup Programs[sc].vocab :
    ~HasKey(parsers[1].options, name) =>
      /\ get_mono_opt(parsers, opts, 1, name).exc = "ParserError"
      /\ get_poly_opt(parsers, opts, 1, name).exc = "ParserError"
      /\ len_list(parsers, opts, 1, name).exc = "ParserError"
      /\ getitem(parsers, opts, 1, StrV(name)).exc = "ParserError"

\* C22: every getter, setter, unset, length and clear operation, and
\* parser[name], called with a name that is not registered raises ParserError
\* and leaves the option values, the positional list and the matched command
\* as they were.
C22_UnknownNameRaises ==
  /\ [][C22_Step]_vars
  /\ []C22_Getters

C22_Witness ==
  /\ sc = 5 /\ status = "raised" /\ err.kind = "ParserError"
  /\ Last(log).ev = "clear" /\ Last(log).tok = T_nope
  /\ RootValues(T_list) = <<StrV(T_x)>>
  /\ RootValues(T_b) = <<BoolV(TRUE)>>

\* An occurrence of a list option that is not greedy, with a value-shaped
\* argument after it, takes that argument and no other.
C23_Step ==
  LET o == PendingOcc
  IN (/\ o.ref # 0 /\ o.form \in {"long", "char"}
      /\ opts[o.ref].poly /\ ~opts[o.ref].greedy /\ opts[o.ref].type # "bool"
      /\ o.index < Len(Top.args) /\ ValueShaped(Top.args[o.index + 1])) =>
       /\ TopNext.index = o.index + 1
       /\ parsers' = parsers
       /\ opts'[o.ref].values =
            IF status' = "parsing"
            THEN Append(opts[o.ref].values,
                        try_parse_arg(opts[o.ref].type, Top.args[o.index + 1]).val)
            ELSE opts[o.ref].values

\* A value-shaped argument right after the value that such an occurrence
\* took is handled by the main loop as a positional, a command or help, and
\* changes no option.
C23_After ==
  (/\ status = "parsing" /\ stack # <<>> /\ log # <<>>
   /\ Last(log).ev = "value"
   /\ opts[Last(log).ref].poly /\ ~opts[Last(log).ref].greedy
   /\ Top.pc = "loop" /\ Top.index < Len(Top.args)
   /\ ValueShaped(Top.args[Top.index + 1])) =>
     /\ \A q \in 1..Len(opts) : opts'[q].values = opts[q].values
     /\ Len(log') > Len(log)
     /\ log'[Len(log) + 1].ev \in {"positional", "dash_positional", "command", "help"}
     /\ log'[Len(log) + 1].tok = Top.args[Top.index + 1]

C23_Example ==
  /\ (Finished /\ sc = 3
      /\ input = <<T_dd_string, T_foo, T_bar, T_dd_string, T_baz>>) =>
        /\ RootValues(T_string) = <<StrV(T_foo), StrV(T_baz)>>
        /\ parsers[1].arguments = <<T_bar>>
  /\ (sc = 7 /\ input = <<T_dd_list, T_x, T_help>> /\ status # "parsing") =>
        /\ status = "exit_err" /\ err.kind = "MissingHelpTarget"
        /\ RootValues(T_list) = <<StrV(T_x)>>

FirstFailure(o) ==
  IF o.ref = 0 THEN "UnknownOption"
  ELSE IF opts[o.ref].type = "bool" THEN "TypeMismatch"
  ELSE IF PendingValue = <<>> THEN "EmptyValue"
  ELSE IF opts[o.ref].mono /\ opts[o.ref].found THEN "DuplicateOption"
  ELSE "none"

C24_Step ==
  LET o == PendingOcc
  IN (o.form = "equals" /\ FirstFailure(o) # "none") =>
       /\ status' = "exit_err"
       /\ err'.kind = FirstFailure(o)

\* C24: a name=value argument, long or short, is checked in the order
\* unknown name, flag (TypeMismatch), empty value, second occurrence of a
\* mono option, and the first check that fails gives the error reported.
C24_EqualsCheckOrder == [][C24_Step]_vars

\* The registrations of options on parser p that name alias a, as history
\* entries.
RegsOf(p, a) ==
  {j \in 1..Len(log) :
     log[j].ev = "reg_opt" /\ log[j].p = p /\ a \in Range(Split(log[j].tok))}

\* The option that the last registration naming alias a on parser p made,
\* 0 when no registration names it.
LastReg(p, a) ==
  IF RegsOf(p, a) = {} THEN 0
  ELSE log[CHOOSE j \in RegsOf(p, a) : \A e \in RegsOf(p, a) : e <= j].ref

\* The aliases that the registrations made so far on parser p name.
Registered_aliases(p) ==
  UNION {Range(Split(log[j].tok)) :
           j \in {e \in 1..Len(log) : log[e].ev = "reg_opt" /\ log[e].p = p}}

\* No registration fails, and every alias is bound to the option of the last
\* registration that names it.
C25_Bound ==
  /\ prog # <<>> => status = "idle"
  /\ \A p \in 1..Len(parsers) :
       /\ DOMAIN parsers[p].options = Registered_aliases(p)
       /\ \A a \in Registered_aliases(p) :
            Lookup(parsers, p, a) = LastReg(p, a)

\* An occurrence in a parse, or a set, unset or clear, through an alias
\* changes no option but the one last registered under that alias, and a
\* set that returns is read back through the alias.
C25_Step ==
  /\ PendingOcc.form # "none" =>
       \A q \in 1..Len(opts) :
         q # LastReg(Top.p, PendingOcc.name) => opts'[q] = opts[q]
  /\ (Len(log') = Len(log) + 1 /\ Last(log').ev \in {"set", "unset", "clear"}) =>
       /\ \A q \in 1..Len(opts) :
            q # LastReg(1, Last(log').tok) => opts'[q] = opts[q]
       /\ (Last(log').ev = "set" /\ status' = "idle") =>
            Last(opts'[LastReg(1, Last(log').tok)].values)
              = Programs[sc].apiValues[Last(log').i]

C25_Example ==
  (Finished /\ sc = 8 /\ NoApi /\ input = <<T_s_s, T_dd_string, T_value>>) =>
    /\ get_mono_opt(parsers, opts, 1, T_s) = [exc |-> "none", val |-> BoolV(TRUE)]
    /\ get_mono_opt(parsers, opts, 1, T_bool) = [exc |-> "none", val |-> BoolV(TRUE)]
    /\ get_mono_opt(parsers, opts, 1, T_string)
         = [exc |-> "none", val |-> StrV(T_value)]

\* C25: registering an alias that is bound already binds it to the new
\* option without an error; from then on a lookup, a set and an occurrence
\* in a parse through that alias act on the new option only, and the other
\* aliases of the earlier option stay bound to it and keep its value.
C25_LastRegistrationWins ==
  /\ [][C25_Step]_vars
  /\ [](C25_Bound /\ C25_Example)

C25_Witness ==
  /\ Finished /\ sc = 8 /\ input = <<T_s_s>>
  /\ Last(log).ev = "return"
  /\ \E j \in 1..Len(log) : log[j].ev = "set" /\ log[j].tok = T_s
  /\ RootValues(T_s) = <<BoolV(TRUE)>>
  /\ RootValues(T_string) = <<StrV(T_default)>>
  /\ parsers[1].options[T_s] # parsers[1].options[T_string]

\* The step prints text, a line of its own, and ends the process with exit
\* status 0, changing nothing else.
PrintsAndExits(text) ==
  /\ status' = "exit_ok"
  /\ out' = Append(out, text \o <<"\n">>)
  /\ err' = err /\ parsers' = parsers /\ opts' = opts

C26_Step ==
  LET o == PendingOcc
  IN o.form = "long" =>
       IF o.ref # 0
       THEN /\ status' # "exit_ok" /\ out' = out
            /\ err'.kind # "UnknownOption"
            /\ \E j \in (Len(log) + 1)..Len(log') :
                 log'[j].ev = "occ" /\ log'[j].ref = o.ref
            /\ (status' = "parsing" /\ opts[o.ref].type = "bool") =>
                 Last(opts'[o.ref].values) = BoolV(TRUE)
       ELSE IF o.name = T_help /\ parsers[Top.p].helptext # None
       THEN PrintsAndExits(parsers[Top.p].helptext.v)
       ELSE IF o.name = T_version /\ parsers[Top.p].version # None
       THEN PrintsAndExits(parsers[Top.p].version.v)
       ELSE FailsUnknown

C26_Example ==
  /\ (sc = 9 /\ input = <<T_dd_version>> /\ status # "parsing") =>
        /\ Finished /\ out = <<>>
        /\ RootValues(T_version) = <<BoolV(TRUE)>>
  /\ (sc = 9 /\ input = <<T_dd_help>> /\ status # "parsing") =>
        status = "exit_ok" /\ out = <<N_usage \o <<"\n">>>>
  /\ (sc = 4 /\ input = <<T_dd_version>> /\ status # "parsing") =>
        status = "exit_ok" /\ out = <<N_1_0 \o <<"\n">>>>
  /\ (sc = 4 /\ input = <<T_cmd, T_dd_version>> /\ status # "parsing") =>
        status = "exit_err" /\ err.kind = "UnknownOption" /\ out = <<>>

\* C26: a long-form name without "=" is resolved in a fixed order: a
\* registered option named help or version is handled as any other option;
\* otherwise --help prints the help text and exits 0 only on a parser that
\* has one, and --version prints the version and exits 0 only on a parser
\* that has one; in every other case, --help and --version on a parser
\* without help text or version included, the parse fails with "is not a
\* recognised option".
C26_LongNamePriority == [][C26_Step /\ C26_Example']_vars

C26_Witness ==
  /\ Finished /\ sc = 9 /\ input = <<T_dd_version, T_x>>
  /\ RootValues(T_version) = <<BoolV(TRUE)>>
  /\ parsers[1].version = StrV(N_1_0)
  /\ out = <<>>

\* The errors in the user's arguments.
UserErrors ==
  {"UnknownOption", "DuplicateOption", "TypeMismatch", "EmptyValue",
   "MissingArgument", "InvalidNumericLiteral", "UnknownCommand",
   "MissingHelpTarget"}

\* The step that detects an error in the arguments ends the process; it is
\* the first error, it changes no positional and no matched command, ends no
\* call, invokes no callback and fetches no argument after the one that
\* fails; the one option whose values change is a greedy list that has taken
\* the values before the one that fails. Nothing happens after the process
\* has ended so.
C27_Step ==
  /\ status # "exit_err"
  /\ (status = "parsing" /\ err'.kind \in UserErrors) =>
       LET o == PendingOcc
           new == SubSeq(log', Len(log) + 1, Len(log'))
       IN /\ status' = "exit_err"
          /\ err = NoErr
          /\ parsers' = parsers
          /\ Len(stack') = Len(stack)
          /\ \A j \in 1..(Len(stack) - 1) : stack'[j] = stack[j]
          /\ \A j \in 1..Len(new) :
               /\ new[j].ev \in ClassEvents \cup {"occ", "value"}
               /\ new[j].ev \in ClassEvents => j = 1
               /\ new[j].i <= TopNext.index
          /\ \A q \in 1..Len(opts) :
               opts'[q].values =
                 IF q = o.ref /\ opts[q].greedy /\ o.form \in {"long", "char"}
                 THEN opts[q].values
                        \o Coerced(opts[q].type,
                                   NumericPrefix(opts[q].type, Taken(o)))
                 ELSE opts[q].values

\* A parse in progress has reported no error, and one that has ended with an
\* error has reported one.
C27_OneError ==
  /\ status = "parsing" => err = NoErr
  /\ status = "exit_err" => err.kind \in UserErrors

C27_Example ==
  (sc = 2 /\ input = <<T_value, T_s_bsif>> /\ status # "parsing") =>
    /\ status = "exit_err" /\ err.kind = "MissingArgument"
    /\ RootValues(T_bool) = <<BoolV(TRUE)>>
    /\ RootValues(T_string) = <<StrV(T_default)>>
    /\ parsers[1].arguments = <<T_value>>

\* C27: a call of parse that detects an error in the arguments stops where
\* it detects it: one error is reported, no argument after the failing one
\* is classified, no option value and no positional changes afterwards and
\* no command callback is invoked afterwards; what the arguments before the
\* failure changed, the earlier characters of the same short-form argument
\* included, stays changed.
C27_StopsAtFirstError ==
  /\ [][C27_Step]_vars
  /\ [](C27_OneError /\ C27_Example)

C27_Witness ==
  /\ sc = 2 /\ input = <<T_value, T_s_bsif>>
  /\ status = "exit_err" /\ err.kind = "MissingArgument"
  /\ RootValues(T_bool) = <<BoolV(TRUE)>>

\* The cursor of the call of depth d that history entry c starts: the frame's
\* while the call is on the stack, the one it returned with otherwise.
CursorOf(c) ==
  IF log[CallEnd(c)].ev = "return" /\ log[CallEnd(c)].d = log[c].d
  THEN log[CallEnd(c)].i
  ELSE IF CallEnd(c) = Len(log) /\ log[c].d <= Len(stack)
  THEN stack[log[c].d].index
  ELSE 0

\* The entries of call c that say what became of its i-th argument: its
\* classification by the main loop, or its use as the value of an option.
Uses(c, i) ==
  {j \in c..CallEnd(c) :
     /\ log[j].d = log[c].d /\ log[j].i = i
     /\ log[j].ev \in ClassEvents \cup {"value"}}

\* The i-th argument of call c comes after a command, whose parser has it,
\* or is the argument of the help command.
Delegated(c, i) ==
  \E j \in c..CallEnd(c) :
    /\ log[j].d = log[c].d
    /\ \/ log[j].ev = "command" /\ log[j].i < i
       \/ log[j].ev = "help" /\ log[j].i + 1 = i

\* Every argument that a call has consumed has one use: one classification
\* or one use as a value; the ones after a command and the argument of help
\* have none in that call.
C28_Once ==
  \A c \in 1..Len(log) :
    log[c].ev = "call" =>
      \A i \in 1..CursorOf(c) :
        Cardinality(Uses(c, i)) = IF Delegated(c, i) THEN 0 ELSE 1

\* An occurrence of an option that takes values moves the cursor past all of
\* them in the step that stores them: the step appends no positional,
\* matches no command and prints nothing, whatever the values are.
C28_Step ==
  LET o == PendingOcc
  IN (/\ o.ref # 0 /\ o.form \in {"long", "char"}
      /\ opts[o.ref].type # "bool"
      /\ ~(opts[o.ref].mono /\ opts[o.ref].found)
      /\ Taken(o) # <<>>) =>
       /\ parsers' = parsers
       /\ Len(stack') = Len(stack)
       /\ out' = out
       /\ status' = "parsing" =>
            /\ TopNext.index = o.index + Len(Taken(o))
            /\ Len(opts'[o.ref].values) >= Len(Taken(o))
            /\ Drop(opts'[o.ref].values,
                    Len(opts'[o.ref].values) - Len(Taken(o)))
                 = Coerced(opts[o.ref].type, Taken(o))

C28_Example ==
  /\ (sc = 7 /\ input = <<T_dd_tag, T_cmd, T_help>> /\ status # "parsing") =>
        /\ Finished /\ out = <<>>
        /\ RootValues(T_tag) = <<StrV(T_cmd), StrV(T_help)>>
        /\ parsers[1].arguments = <<>>
        /\ parsers[1].cmd_parser = 0
  /\ (sc = 7 /\ input = <<T_dd_list, T_help, T_x>> /\ status # "parsing") =>
        /\ Finished /\ out = <<>>
        /\ RootValues(T_list) = <<StrV(T_help)>>
        /\ parsers[1].arguments = <<T_x>>

\* C28: an argument taken as the value of an option, alone or in a greedy
\* run, is not dispatched as a command, does not start the help command and
\* is not appended to the positionals, even when it is a command name or
\* "help"; every argument is consumed once and is one of: an option, the
\* value of an option, the "--" switch, a command (the rest going to its
\* parser), the argument of help, a positional.
C28_ValuesAreOnlyValues ==
  /\ [][C28_Step]_vars
  /\ [](C28_Once /\ C28_Example)

C28_Witness ==
  /\ Finished /\ sc = 7 /\ input = <<T_dd_tag, T_cmd, T_help>>
  /\ RootValues(T_tag) = <<StrV(T_cmd), StrV(T_help)>>

\* has_cmd(), get_cmd_name() and get_cmd_parser() of parser p report no
\* command.
NoCmd(p) == parsers[p].cmd_name = None /\ parsers[p].cmd_parser = 0

\* The callbacks invoked and the commands recorded so far by the calls of
\* depth d.
Completions(d) ==
  {j \in 1..Len(log) : log[j].ev \in {"callback", "record"} /\ log[j].d = d}

\* While the nested parse of a matched command runs, and while its callback
\* is still to return, the parser that matched it reports no command.
C29_Unset ==
  FirstCall =>
    \A d \in 1..Len(stack) :
      stack[d].pc \in {"nested", "callback"} => NoCmd(stack[d].p)

\* When the process has ended inside the nested parse of a command, no call
\* waiting for it has invoked a callback or recorded a command.
C29_Failed ==
  (FirstCall /\ status \in {"exit_err", "exit_ok", "raised"}) =>
    \A d \in 1..(Len(stack) - 1) :
      /\ stack[d].pc = "nested"
      /\ Completions(d) = {}
      /\ NoCmd(stack[d].p)

\* The callback is invoked right after the nested parse has returned, with
\* the parser reporting no command before and after it; the command is
\* recorded in the step right after the callback.
C29_Step ==
  /\ (Len(log') = Len(log) + 1 /\ Last(log').ev = "callback") =>
       /\ Last(log).ev = "return" /\ Last(log).d = Len(stack) + 1
       /\ FirstCall => NoCmd(Top.p)
       /\ parsers' = parsers
       /\ TopNext.pc = "record"
  /\ (Len(log') = Len(log) + 1 /\ Last(log').ev = "record") =>
       /\ Last(log).ev = "callback" /\ Last(log).d = Len(stack)
       /\ Last(log).tok = Top.arg
       /\ parsers'[Top.p].cmd_name = StrV(Top.arg)
       /\ parsers'[Top.p].cmd_parser = Last(log).ref

C29_Example ==
  /\ (sc = 4 /\ input = <<T_cmd, T_s_b>> /\ status # "parsing") =>
        /\ status = "exit_err" /\ err.kind = "UnknownOption"
        /\ NoCmd(1) /\ Completions(1) = {}
  /\ (sc = 4 /\ input = <<T_cmd, T_dd_help>> /\ status # "parsing") =>
        /\ status = "exit_ok"
        /\ NoCmd(1) /\ Completions(1) = {}

\* C29: when the nested parse of a matched command fails, or exits through
\* help or version, the command's callback is never invoked and the matched
\* command of the parent stays unset; when it succeeds the parent records
\* the command only after the callback has returned, so that during the
\* callback the parent reports no command.
C29_RecordAfterCallback ==
  /\ [][C29_Step]_vars
  /\ [](C29_Unset /\ C29_Failed /\ C29_Example)

C29_Witness ==
  /\ sc = 4 /\ input = <<T_cmd, T_sub, T_s_b>>
  /\ status = "exit_err" /\ Len(stack) = 3
  /\ NoCmd(1) /\ NoCmd(2)
  /\ Completions(1) \cup Completions(2) = {}

\* The number of arguments of the call that history entry j belongs to: the
\* last call of its depth before it.
LengthAt(j) ==
  LET calls == {c \in 1..j : log[c].ev = "call" /\ log[c].d = log[j].d}
  IN log[CHOOSE c \in calls : \A e \in calls : e <= c].ref

\* The cursor of every call is within its argument list, and every argument
\* read from a stream, by the main loop or as a value, is at a position the
\* list has.
C30_Bounds ==
  /\ \A d \in 1..Len(stack) :
       0 <= stack[d].index /\ stack[d].index <= Len(stack[d].args)
  /\ \A j \in 1..Len(log) :
       log[j].ev \in ClassEvents \cup {"occ", "value"} =>
         1 <= log[j].i /\ log[j].i <= LengthAt(j)

\* No step changes the argument list of a call or moves its cursor back; a
\* step of the innermost call reads no argument past the end of its list,
\* and help at the end of the stream fails without a read.
C30_Step ==
  /\ \A d \in 1..Len(stack) :
       d <= Len(stack') =>
         /\ stack'[d].args = stack[d].args
         /\ stack'[d].index >= stack[d].index
  /\ (status = "parsing" /\ stack # <<>>) =>
       /\ \A j \in (Len(log) + 1)..Len(log') :
            (log'[j].ev \in ClassEvents \cup {"occ", "value"}
             /\ log'[j].d = Len(stack)) =>
              log'[j].i <= Len(Top.args)
       /\ Len(stack') >= Len(stack) => TopNext.index <= Len(Top.args)
  /\ (AtLoop("help") /\ Top.index + 1 = Len(Top.args)) =>
       /\ status' = "exit_err" /\ err'.kind = "MissingHelpTarget"
       /\ TopNext.index = Len(Top.args)

\* C30: in every state of a parse the cursor of a stream is between 0 and
\* the length and only ever increases, the argument list under it is never
\* changed, and next and peek are called only when has_next is true: in the
\* main loop, when a value is taken, in the greedy loop and in the help
\* command.
C30_StreamStaysInBounds ==
  /\ [][C30_Step]_vars
  /\ []C30_Bounds

C30_Witness ==
  /\ sc = 1 /\ input = <<T_foo, T_help>>
  /\ status = "exit_err" /\ err.kind = "MissingHelpTarget"
  /\ stack[1].index = 2 /\ stack[1].args = input

====
